---------------------------- MODULE Spec2Model ----------------------------
(*************************************************************************)
(* TicTacToe multiplayer STREAM server (Player 1) with multicast         *)
(* discovery, and the failover client (Player 2).                        *)
(*                                                                       *)
(* Server code: src/unnamed/part_000.  Client code: the C listing in     *)
(* src/Design_Server.md (from line 287).                                 *)
(*                                                                       *)
(* Bytes are modelled as integers 0..255; characters by their ASCII      *)
(* code ('0' = 48, 'X' = 88, 'O' = 79).  File descriptors are integers,  *)
(* allocated lowest-free-first as POSIX prescribes.                      *)
(*************************************************************************)
EXTENDS Integers, Sequences, FiniteSets, TLC

-----------------------------------------------------------------------------
(* Program constants                                                       *)

ROWS == 3
COLUMNS == 3
GAME_SIZE == ROWS * COLUMNS
MAX_GAMES == 10
VERSION == 6
MC_PORT == 1818
MC_ATTEMPTS == 5
P1_MARK == 88
P2_MARK == 79
TCP_CMD_SIZE == 4
NEW_GAME == 0
MOVE == 1
GAME_OVER == 2
RESUME_GAME == 3
REQUEST_GAME == 4
GAME_AVAILABLE == 5
INT32_MIN == -2147483647 - 1
INT16_MAX == 32767
ASCII_0 == 48

(* A char holding byte v, read as the signed char of the x86 build.        *)
SChar(v) == IF v > 127 THEN v - 256 ELSE v
(* The byte stored when the int n is assigned to a char.                   *)
ToByte(n) == n % 256

-----------------------------------------------------------------------------
(* Game engine (server)                                                    *)

Cells == 1..GAME_SIZE
(* The label of cell i (1-based): the character i + '0'.                   *)
Label(i) == i + ASCII_0

init_shared_state == [i \in Cells |-> Label(i)]

LineEq(board, p, q, r) == board[p] = board[q] /\ board[q] = board[r]

(* check_win without its last test (cells 3, 5, 7).                        *)
check_win_seven(board) ==
    LET score == GAME_SIZE + 1
        Sc(p) == IF board[p] = P1_MARK THEN score ELSE -score
    IN  IF LineEq(board, 1, 2, 3) THEN Sc(1)
        ELSE IF LineEq(board, 4, 5, 6) THEN Sc(4)
        ELSE IF LineEq(board, 7, 8, 9) THEN Sc(7)
        ELSE IF LineEq(board, 1, 4, 7) THEN Sc(1)
        ELSE IF LineEq(board, 2, 5, 8) THEN Sc(2)
        ELSE IF LineEq(board, 3, 6, 9) THEN Sc(3)
        ELSE IF LineEq(board, 1, 5, 9) THEN Sc(1)
        ELSE 0

check_win(board) ==
    LET score == GAME_SIZE + 1
        Sc(p) == IF board[p] = P1_MARK THEN score ELSE -score
    IN  IF LineEq(board, 1, 2, 3) THEN Sc(1)
        ELSE IF LineEq(board, 4, 5, 6) THEN Sc(4)
        ELSE IF LineEq(board, 7, 8, 9) THEN Sc(7)
        ELSE IF LineEq(board, 1, 4, 7) THEN Sc(1)
        ELSE IF LineEq(board, 2, 5, 8) THEN Sc(2)
        ELSE IF LineEq(board, 3, 6, 9) THEN Sc(3)
        ELSE IF LineEq(board, 1, 5, 9) THEN Sc(1)
        ELSE IF LineEq(board, 3, 5, 7) THEN Sc(3)
        ELSE 0

check_draw(board) == \A i \in Cells : board[i] # Label(i)

(* The search loop of minimax over the cells 1..9: best starts at the     *)
(* given value and is replaced by every value that is greater (isMax) or   *)
(* smaller (otherwise), so it ends as the greatest (smallest) of the       *)
(* start value and found, the values the recursive calls return for the    *)
(* trial moves on the empty cells.                                         *)
minimaxLoop(isMax, best, found) ==
    IF isMax
    THEN CHOOSE v \in found \cup {best} : \A w \in found \cup {best} : v >= w
    ELSE CHOOSE v \in found \cup {best} : \A w \in found \cup {best} : v <= w

EmptyCells(board) == {i \in Cells : board[i] = Label(i)}

(* The board minimax searches below cell i: the mover's mark placed on i   *)
(* (the code places it in the shared board and undoes it after the call).  *)
TrialBoard(board, i, isMax) ==
    [board EXCEPT ![i] = IF isMax THEN P1_MARK ELSE P2_MARK]

(* The body of minimax scoring a win the same at every depth.              *)
minimaxBody_flat(board, depth, isMax, vals) ==
    LET score == check_win(board)
    IN  IF score # 0 THEN score
        ELSE IF check_draw(board) THEN 0
        ELSE minimaxLoop(isMax, IF isMax THEN INT32_MIN ELSE INT16_MAX,
                         {vals[i] : i \in EmptyCells(board)})

(* One execution of the body of minimax; vals[i] is the value of the       *)
(* recursive call minimax(TrialBoard(board, i, isMax), depth+1, !isMax).   *)
minimaxBody(board, depth, isMax, vals) ==
    LET score == check_win(board)
    IN  IF score > 0 THEN score - depth
        ELSE IF score < 0 THEN score + depth
        ELSE IF check_draw(board) THEN 0
        ELSE minimaxLoop(isMax, IF isMax THEN INT32_MIN ELSE INT16_MAX,
                         {vals[i] : i \in EmptyCells(board)})

(* The recursion exactly as the code runs it.                              *)
RECURSIVE minimaxDirect(_, _, _)
minimaxDirect(board, depth, isMax) ==
    minimaxBody(board, depth, isMax,
                [i \in Cells |->
                   IF board[i] = Label(i)
                   THEN minimaxDirect(TrialBoard(board, i, isMax), depth + 1, ~isMax)
                   ELSE 0])

(*************************************************************************)
(* Memoisation of minimax.  The value of minimax(board, depth, isMax)    *)
(* is a function of its arguments only, so the model tabulates it once   *)
(* for the boards of alternating play at the depths and turns at which   *)
(* find_best_move can reach them: phase 0 from a board with as many X as *)
(* O (boards with X - O in {0, 1}), phase 1 from a board with one O more *)
(* (X - O in {-1, 0}), phase -1 from a board with one X more (X - O in   *)
(* {1, 2}).  Every entry is computed by                                  *)
(* minimaxBody, its recursive calls looked up one level down.  Any other *)
(* argument falls back to minimaxDirect.                                 *)
(*************************************************************************)
CellCode(c) == IF c = P1_MARK THEN 1 ELSE IF c = P2_MARK THEN 2 ELSE 0
BoardIdx(board) ==
    1 + CellCode(board[1]) + 3 * CellCode(board[2]) + 9 * CellCode(board[3])
      + 27 * CellCode(board[4]) + 81 * CellCode(board[5]) + 243 * CellCode(board[6])
      + 729 * CellCode(board[7]) + 2187 * CellCode(board[8]) + 6561 * CellCode(board[9])
IdxDigit(k, i) == ((k - 1) \div <<1, 3, 9, 27, 81, 243, 729, 2187, 6561>>[i]) % 3
BoardOfIdx(k) ==
    [i \in Cells |-> LET c == IdxDigit(k, i)
                     IN  IF c = 1 THEN P1_MARK ELSE IF c = 2 THEN P2_MARK ELSE Label(i)]
IdxCount(k, c) ==
    LET D(i) == IF IdxDigit(k, i) = c THEN 1 ELSE 0
    IN  D(1) + D(2) + D(3) + D(4) + D(5) + D(6) + D(7) + D(8) + D(9)
MemoPhaseSet == {-1, 0, 1}
MemoIdx ==
    [ph \in MemoPhaseSet |-> [m \in Cells |-> {k \in 1..19683 :
        LET nx == IdxCount(k, 1)
            no == IdxCount(k, 2)
        IN  nx + no = m /\ nx - no + ph \in {0, 1}}]]
MemoDepths(m, ph) ==
    {d \in 0..(m - 1 - (IF ph < 0 THEN -ph ELSE ph)) : (m - 1 - ph - d) % 2 = 0}
MemoLevel(m, ph, sub) ==
    [k \in MemoIdx[ph][m] |->
       [d \in MemoDepths(m, ph) |->
          LET board == BoardOfIdx(k)
              isMax == (d % 2 = 1)
          IN  minimaxBody(board, d, isMax,
                          [i \in Cells |->
                             IF board[i] = Label(i)
                             THEN sub[BoardIdx(TrialBoard(board, i, isMax))][d + 1]
                             ELSE 0])]]
MemoA9 == MemoLevel(9, 0, <<>>)
MemoA8 == MemoLevel(8, 0, MemoA9)
MemoA7 == MemoLevel(7, 0, MemoA8)
MemoA6 == MemoLevel(6, 0, MemoA7)
MemoA5 == MemoLevel(5, 0, MemoA6)
MemoA4 == MemoLevel(4, 0, MemoA5)
MemoA3 == MemoLevel(3, 0, MemoA4)
MemoA2 == MemoLevel(2, 0, MemoA3)
MemoA1 == MemoLevel(1, 0, MemoA2)
MemoB9 == MemoLevel(9, 1, <<>>)
MemoB8 == MemoLevel(8, 1, MemoB9)
MemoB7 == MemoLevel(7, 1, MemoB8)
MemoB6 == MemoLevel(6, 1, MemoB7)
MemoB5 == MemoLevel(5, 1, MemoB6)
MemoB4 == MemoLevel(4, 1, MemoB5)
MemoB3 == MemoLevel(3, 1, MemoB4)
MemoB2 == MemoLevel(2, 1, MemoB3)
MemoB1 == MemoLevel(1, 1, MemoB2)
MemoC9 == MemoLevel(9, -1, <<>>)
MemoC8 == MemoLevel(8, -1, MemoC9)
MemoC7 == MemoLevel(7, -1, MemoC8)
MemoC6 == MemoLevel(6, -1, MemoC7)
MemoC5 == MemoLevel(5, -1, MemoC6)
MemoC4 == MemoLevel(4, -1, MemoC5)
MemoC3 == MemoLevel(3, -1, MemoC4)
MemoC2 == MemoLevel(2, -1, MemoC3)
MemoC1 == MemoLevel(1, -1, MemoC2)
MinimaxMemo ==
    [ph \in MemoPhaseSet |->
        IF ph = 0
        THEN <<MemoA1, MemoA2, MemoA3, MemoA4, MemoA5, MemoA6, MemoA7, MemoA8, MemoA9>>
        ELSE IF ph = 1
        THEN <<MemoB1, MemoB2, MemoB3, MemoB4, MemoB5, MemoB6, MemoB7, MemoB8, MemoB9>>
        ELSE <<MemoC1, MemoC2, MemoC3, MemoC4, MemoC5, MemoC6, MemoC7, MemoC8, MemoC9>>]

CountMark(board, mark) == Cardinality({i \in Cells : board[i] = mark})
MemoPhases(board, depth, isMax) ==
    LET nx == CountMark(board, P1_MARK)
        no == CountMark(board, P2_MARK)
    IN  {ph \in MemoPhaseSet : /\ \A i \in Cells : board[i] \in {Label(i), P1_MARK, P2_MARK}
                               /\ nx + no >= 1
                               /\ nx - no + ph \in {0, 1}
                               /\ depth \in MemoDepths(nx + no, ph)
                               /\ isMax = (depth % 2 = 1)}

minimax(board, depth, isMax) ==
    LET phases == MemoPhases(board, depth, isMax)
    IN  IF phases # {}
        THEN MinimaxMemo[CHOOSE ph \in phases : TRUE]
                        [CountMark(board, P1_MARK) + CountMark(board, P2_MARK)]
                        [BoardIdx(board)][depth]
        ELSE minimaxDirect(board, depth, isMax)

(* find_best_move: every empty cell is tried in ascending order with      *)
(* Player 1's mark and valued by minimax(game, 0, 0); bestValue starts at  *)
(* INT32_MIN and a cell replaces bestMove only with a greater value, so    *)
(* the result is the first cell of the greatest value, or -1 when no cell  *)
(* is empty.  scored is the set of <<cell, value>> of the empty cells.     *)
FirstBest(scored) ==
    IF scored = {} THEN -1
    ELSE (CHOOSE p \in scored :
            \A q \in scored : q[2] <= p[2] /\ (q[1] < p[1] => q[2] < p[2]))[1]

(* find_best_move without the search: the first empty cell.               *)
find_best_move_first(board) ==
    IF EmptyCells(board) = {} THEN -1
    ELSE CHOOSE i \in EmptyCells(board) : \A j \in EmptyCells(board) : i <= j

find_best_move(board) ==
    FirstBest({<<i, minimax([board EXCEPT ![i] = P1_MARK], 0, FALSE)>> :
                 i \in EmptyCells(board)})

(*************************************************************************)
(* The search as it runs on the one board of the slot.  minimax and      *)
(* find_best_move place the trial mark in game->board, recurse, and      *)
(* write the label back; the operators below thread the board through    *)
(* the loops in the order of the code and return it with the result.     *)
(*************************************************************************)
RECURSIVE minimaxRun(_, _, _), minimaxCells(_, _, _, _, _)
(* The loop of minimax from cell i on, best being the best value so far.   *)
minimaxCells(board, depth, isMax, i, best) ==
    IF i > GAME_SIZE THEN [value |-> best, board |-> board]
    ELSE IF board[i] = Label(i)
    THEN LET made  == [board EXCEPT ![i] = IF isMax THEN P1_MARK ELSE P2_MARK]
             sub   == minimaxRun(made, depth + 1, ~isMax)
             undo  == [sub.board EXCEPT ![i] = Label(i)]
             newer == IF isMax THEN sub.value > best ELSE sub.value < best
         IN  minimaxCells(undo, depth, isMax, i + 1, IF newer THEN sub.value ELSE best)
    ELSE minimaxCells(board, depth, isMax, i + 1, best)

minimaxRun(board, depth, isMax) ==
    LET score == check_win(board)
    IN  IF score > 0 THEN [value |-> score - depth, board |-> board]
        ELSE IF score < 0 THEN [value |-> score + depth, board |-> board]
        ELSE IF check_draw(board) THEN [value |-> 0, board |-> board]
        ELSE minimaxCells(board, depth, isMax, 1,
                          IF isMax THEN INT32_MIN ELSE INT16_MAX)

RECURSIVE find_best_move_run(_, _, _, _)
(* The loop of find_best_move leaving its trial marks on the board.        *)
RECURSIVE find_best_move_keep(_, _, _, _)
find_best_move_keep(board, i, bestMove, bestValue) ==
    IF i > GAME_SIZE THEN [bestMove |-> bestMove, board |-> board]
    ELSE IF board[i] = Label(i)
    THEN LET sub == minimaxRun([board EXCEPT ![i] = P1_MARK], 0, FALSE)
         IN  IF sub.value > bestValue
             THEN find_best_move_keep(sub.board, i + 1, i, sub.value)
             ELSE find_best_move_keep(sub.board, i + 1, bestMove, bestValue)
    ELSE find_best_move_keep(board, i + 1, bestMove, bestValue)

(* The loop of find_best_move taking every cell that is no worse.         *)
RECURSIVE find_best_move_last(_, _, _, _)
find_best_move_last(board, i, bestMove, bestValue) ==
    IF i > GAME_SIZE THEN [bestMove |-> bestMove, board |-> board]
    ELSE IF board[i] = Label(i)
    THEN LET sub  == minimaxRun([board EXCEPT ![i] = P1_MARK], 0, FALSE)
             undo == [sub.board EXCEPT ![i] = Label(i)]
         IN  IF sub.value >= bestValue
             THEN find_best_move_last(undo, i + 1, i, sub.value)
             ELSE find_best_move_last(undo, i + 1, bestMove, bestValue)
    ELSE find_best_move_last(board, i + 1, bestMove, bestValue)

(* The loop of find_best_move from cell i on.                              *)
find_best_move_run(board, i, bestMove, bestValue) ==
    IF i > GAME_SIZE THEN [bestMove |-> bestMove, board |-> board]
    ELSE IF board[i] = Label(i)
    THEN LET sub  == minimaxRun([board EXCEPT ![i] = P1_MARK], 0, FALSE)
             undo == [sub.board EXCEPT ![i] = Label(i)]
         IN  IF sub.value > bestValue
             THEN find_best_move_run(undo, i + 1, i, sub.value)
             ELSE find_best_move_run(undo, i + 1, bestMove, bestValue)
    ELSE find_best_move_run(board, i + 1, bestMove, bestValue)

-----------------------------------------------------------------------------
(* Bounds of the model                                                     *)

(* Successful client connections over one run (initial + failovers).       *)
MaxCliConns == 3
(* Server process restarts (kill and start again) over one run.            *)
MaxRestarts == 1
(* Slots whose players are active in the roster specification.             *)
RosterActive == 3
(* Datagrams queued at the client's multicast socket.                      *)
MaxUdpQueue == 1
(* Remote players in the specification of partial reads.                   *)
RecvPeers == 2

-----------------------------------------------------------------------------
(* Wire formats                                                            *)

(* struct TCP_Buffer: four chars, stored as bytes.                         *)
TcpMsg(version, command, data, gameNum) ==
    [version |-> version, command |-> command, data |-> data, gameNum |-> gameNum]
(* The four bytes of a TCP_Buffer as send() puts them on the stream, and   *)
(* the TCP_Buffer that recv() of four bytes fills.                         *)
TcpBytes(tm) == <<tm.version, tm.command, tm.data, tm.gameNum>>
TcpOfBytes(bs) == TcpMsg(bs[1], bs[2], bs[3], bs[4])

(* htons/ntohs on the little-endian build: swap the two bytes.             *)
Htons(n) == (n % 256) * 256 + (n \div 256)
Ntohs(n) == (n % 256) * 256 + (n \div 256)

-----------------------------------------------------------------------------
(* Server: roster and command handlers                                     *)

Slots == 1..MAX_GAMES

(* reset_game on a slot whose gameNum is not yet set (roster start-up).    *)
FreshGame(num) ==
    [sd |-> -1, gameNum |-> num, winner |-> -1, board |-> init_shared_state]

init_game_roster == [s \in Slots |-> FreshGame(s)]

(* reset_game giving up the descriptor only.                               *)
reset_game_sd(game) == [game EXCEPT !.sd = -1]

(* reset_game leaving the descriptor in the slot.                          *)
reset_game_board(game) == [game EXCEPT !.winner = -1, !.board = init_shared_state]

(* reset_game clearing the whole slot, its number included.                 *)
reset_game_zero(game) ==
    [game EXCEPT !.sd = -1, !.gameNum = 0, !.winner = -1, !.board = init_shared_state]

(* reset_game: the slot after the reset (its connection is closed by the   *)
(* caller of this operator, see Outcome).                                  *)
reset_game(game) ==
    [game EXCEPT !.sd = -1, !.winner = -1, !.board = init_shared_state]

(* find_open_game returning the first slot whether or not it is open.      *)
find_open_game_first(roster) == 1

(* find_open_game with its search ending on the last slot instead of       *)
(* ERROR_CODE when no slot is open.                                        *)
find_open_game_last(roster) ==
    IF \E s \in Slots : roster[s].sd < 0
    THEN CHOOSE s \in Slots : roster[s].sd < 0 /\ \A t \in 1..(s - 1) : roster[t].sd >= 0
    ELSE MAX_GAMES

(* find_open_game over a roster: roster index + 1, or 0 for ERROR_CODE    *)
(* (-1).                                                                   *)
find_open_game(roster) ==
    IF \E s \in Slots : roster[s].sd < 0
    THEN CHOOSE s \in Slots : roster[s].sd < 0 /\ \A t \in 1..(s - 1) : roster[t].sd >= 0
    ELSE 0

validate_move(choice, game) ==
    IF choice < 1 \/ choice > 9 THEN FALSE
    ELSE IF game.board[choice] # choice + ASCII_0 THEN FALSE
    ELSE IF game.winner > 0 THEN FALSE
    ELSE TRUE

(* check_game_over recording nothing.                                      *)
check_game_over_skip(game) == game

(* check_game_over: the winner it records, or "none" if it returns 0.      *)
GameOverNow(board) == check_win(board) # 0 \/ check_draw(board)
check_game_over(game) ==
    LET score == check_win(game.board)
    IN  IF score # 0 THEN [game EXCEPT !.winner = IF score > 0 THEN 1 ELSE 2]
        ELSE IF check_draw(game.board) THEN [game EXCEPT !.winner = 0]
        ELSE game

(* get_tcp_command without its check of the protocol version.              *)
ValidTcpAnyVersion(tm) ==
    IF SChar(tm.command) < NEW_GAME \/ SChar(tm.command) > RESUME_GAME THEN FALSE
    ELSE IF tm.command # NEW_GAME
            /\ (SChar(tm.gameNum) < 1 \/ SChar(tm.gameNum) > MAX_GAMES) THEN FALSE
    ELSE TRUE

(* get_tcp_command without the lower bound of its check of the command.    *)
ValidTcpNoFloor(tm) ==
    IF tm.version # VERSION THEN FALSE
    ELSE IF SChar(tm.command) > RESUME_GAME THEN FALSE
    ELSE IF tm.command # NEW_GAME
            /\ (SChar(tm.gameNum) < 1 \/ SChar(tm.gameNum) > MAX_GAMES) THEN FALSE
    ELSE TRUE

(* get_tcp_command, validation part: TRUE iff the message is dispatched.   *)
ValidTcp(tm) ==
    IF tm.version # VERSION THEN FALSE
    ELSE IF SChar(tm.command) < NEW_GAME \/ SChar(tm.command) > RESUME_GAME THEN FALSE
    ELSE IF tm.command # NEW_GAME
            /\ (SChar(tm.gameNum) < 1 \/ SChar(tm.gameNum) > MAX_GAMES) THEN FALSE
    ELSE TRUE

(*************************************************************************)
(* The result of one command handler on one slot:                        *)
(*   game   the slot afterwards                                          *)
(*   sent   the session messages passed to send() on the slot's socket   *)
(*   closed whether reset_game closed the slot's socket                  *)
(*   hang   whether the handler never returns                            *)
(*   called the handler that ran ("none" if get_tcp_command rejected)    *)
(*   searched whether find_best_move was run                             *)
(*   loaded the board as load_shared_state left it, when it returned 1   *)
(*          (<<>> otherwise)                                             *)
(*************************************************************************)
Outcome(game, sent, closed, hang, called, searched) ==
    [game |-> game, sent |-> sent, closed |-> closed, hang |-> hang,
     called |-> called, searched |-> searched, loaded |-> <<>>]

ResetOutcome(game, sent, called, searched) ==
    Outcome(reset_game(game), sent, game.gameNum # 0, FALSE, called, searched)

(* send_p1_move leaving msg.gameNum as zeroed.                             *)
P1MoveMsg_unnumbered(game, best) == TcpMsg(VERSION, MOVE, ToByte(best + ASCII_0), 0)

(* send_p1_move with best the cell find_best_move returns: the handler    *)
(* never returns if validate_move rejects it (the loop asks again and      *)
(* gets the same cell); else the MOVE message is passed to send().         *)
P1MoveMsg(game, best) ==
    TcpMsg(VERSION, MOVE, ToByte(best + ASCII_0), ToByte(game.gameNum))

(* send_game_over: the message is passed to send(), then the slot resets   *)
(* whatever send() returned.                                               *)
send_game_over(game, called, searched) ==
    ResetOutcome(game, <<TcpMsg(VERSION, GAME_OVER, 0, ToByte(game.gameNum))>>, called,
                 searched)

(* The tail shared by new_game, move and resume_game: send Player 1's      *)
(* move; on a send error reset, else place the mark that was sent;         *)
(* checkAfter tells whether check_game_over follows.                       *)
P1ReplyWith(game, best, sendOk, checkAfter, called) ==
    IF ~validate_move(best, game) THEN Outcome(game, <<>>, FALSE, TRUE, called, TRUE)
    ELSE IF ~sendOk THEN ResetOutcome(game, <<P1MoveMsg(game, best)>>, called, TRUE)
    ELSE Outcome(IF checkAfter
                 THEN check_game_over([game EXCEPT
                        !.board[SChar(P1MoveMsg(game, best).data) - ASCII_0] = P1_MARK])
                 ELSE [game EXCEPT
                        !.board[SChar(P1MoveMsg(game, best).data) - ASCII_0] = P1_MARK],
                 <<P1MoveMsg(game, best)>>, FALSE, FALSE, called, TRUE)

P1Reply(game, sendOk, checkAfter, called) ==
    P1ReplyWith(game, find_best_move(game.board), sendOk, checkAfter, called)

new_game(tm, game, sendOk) ==
    P1Reply([game EXCEPT !.board = init_shared_state], sendOk, FALSE, "new_game")

(* move answering the remote player's move without placing its mark.      *)
move_unmarked(tm, game, sendOk) ==
    IF validate_move(SChar(tm.data) - ASCII_0, game)
    THEN P1Reply(game, sendOk, TRUE, "move")
    ELSE ResetOutcome(game, <<>>, "move", FALSE)

move(tm, game, sendOk) ==
    LET mv == SChar(tm.data) - ASCII_0
    IN  IF validate_move(mv, game)
        THEN LET g1 == [game EXCEPT !.board[mv] = P2_MARK]
             IN  IF GameOverNow(g1.board)
                 THEN send_game_over(check_game_over(g1), "move", FALSE)
                 ELSE P1Reply(g1, sendOk, TRUE, "move")
        ELSE ResetOutcome(game, <<>>, "move", FALSE)

(* game_over resetting only a game that has an outcome recorded.           *)
game_over_decided(tm, game) ==
    IF game.winner < 0 THEN Outcome(game, <<>>, FALSE, FALSE, "game_over", FALSE)
    ELSE ResetOutcome(game, <<>>, "game_over", FALSE)

(* game_over: whatever the outcome recorded, the game is reset.            *)
game_over(tm, game) == ResetOutcome(game, <<>>, "game_over", FALSE)

(* load_shared_state without its test of the received bytes.               *)
SnapBytesAny(snap) == TRUE
(* load_shared_state on the nine received bytes: the board after the       *)
(* loop (a 0 byte leaves the cell as it is) and whether 1 is returned.     *)
SnapBytesOk(snap) == \A i \in Cells : snap[i] \in {0, P1_MARK, P2_MARK}
SnapCount(snap, mark) == Cardinality({i \in Cells : snap[i] = mark})
(* load_shared_state accepting mark counts that differ by at most one.     *)
load_ok_lenient(snap) ==
    /\ SnapBytesOk(snap)
    /\ SnapCount(snap, P1_MARK) - SnapCount(snap, P2_MARK) \in {-1, 0, 1}
load_ok(snap) ==
    SnapBytesOk(snap) /\ SnapCount(snap, P1_MARK) = SnapCount(snap, P2_MARK)
load_board(board, snap) ==
    [i \in Cells |-> IF snap[i] # 0 THEN snap[i] ELSE board[i]]

(* resume_game; snap is the nine bytes read after the command, or <<>>     *)
(* when the read returned 0 or an error.                                   *)
resume_game(tm, game, snap, sendOk) ==
    IF snap = <<>> \/ ~load_ok(snap)
    THEN ResetOutcome(game, <<>>, "resume_game", FALSE)
    ELSE LET g1 == [game EXCEPT !.board = load_board(game.board, snap)]
         IN  [(IF GameOverNow(g1.board)
               THEN send_game_over(check_game_over(g1), "resume_game", FALSE)
               ELSE P1Reply(g1, sendOk, TRUE, "resume_game"))
              EXCEPT !.loaded = g1.board]

(* tictactoe, lines 1027-1033: one command read from a ready slot and      *)
(* dispatched through the commands[] table.                                *)
Dispatch(tm, game, snap, sendOk) ==
    IF ~ValidTcp(tm) THEN ResetOutcome(game, <<>>, "none", FALSE)
    ELSE IF tm.command = NEW_GAME THEN new_game(tm, game, sendOk)
    ELSE IF tm.command = MOVE THEN move(tm, game, sendOk)
    ELSE IF tm.command = GAME_OVER THEN game_over(tm, game)
    ELSE resume_game(tm, game, snap, sendOk)


-----------------------------------------------------------------------------
(* State                                                                   *)

VARIABLES
    gameRoster,  \* serv->gameRoster: slot -> [sd, gameNum, winner, board]
    srvFds,      \* the server's descriptors for accepted connections -> peer
    srvState,    \* "run", "hung" (a handler never returns), "down" (no process),
                 \* "recv" / "load" (inside recv of get_tcp_command /
                 \* load_shared_state, waiting for the peer's bytes)
    recvOn,      \* the slot whose peer the server waits on inside recv, or 0
    servPort,    \* the port the server listens on (argv[1])
    restarts,    \* server restarts so far
    cli,         \* the client process: control point, locals, game, attempts
    cliFds,      \* the client's stream descriptors -> connection
    conns,       \* the client's stream connections to the server host
    udpSrv,      \* the client's REQUEST_GAME datagrams waiting at the server
    udpCli,      \* datagrams waiting at the client's multicast socket
    ev           \* the last step: what was received and what was done

vars == <<gameRoster, srvFds, srvState, recvOn, servPort, restarts, cli, cliFds, conns,
          udpSrv, udpCli, ev>>

(* Peers of a server descriptor: closed, a remote player that is not the   *)
(* modelled client, or the number of one of the client's connections.      *)
NoPeer == 0
EnvPeer == -1
ConnIds == 1..MaxCliConns

(* Descriptors 0..2 are the standard streams; the server's multicast and   *)
(* listening sockets are 3 and 4; accept() returns the lowest free one.    *)
SrvFdBase == 5
SrvFdRange == SrvFdBase..(SrvFdBase + MAX_GAMES)
(* socket() and accept() returning the highest free descriptor.            *)
HighestFree(fds, range) ==
    CHOOSE f \in range : fds[f] = NoPeer /\ \A g \in range : g > f => fds[g] # NoPeer
LowestFree(fds, range) ==
    CHOOSE f \in range : fds[f] = NoPeer /\ \A g \in range : g < f => fds[g] # NoPeer

(* The client's multicast socket is 3; its stream socket the lowest free.  *)
CliFdBase == 4
CliFdRange == CliFdBase..(CliFdBase + 1)
(* A client stream socket that is created but not connected.               *)
Unconnected == -2

OtherPort == MC_PORT + 1

(* A stream connection of the client: st is the server end ("unused",      *)
(* "backlog", "accepted", "srvclosed"), cliOpen the client end, c2s and    *)
(* s2c the bytes in flight, lost whether the server end was closed with    *)
(* bytes of the client unread (the client's recv may then fail).           *)

(* A connection with both ends closed keeps nothing.                       *)
Settled(cs) ==
    [n \in DOMAIN cs |->
        IF cs[n].st = "srvclosed" /\ ~cs[n].cliOpen
        THEN [st |-> "srvclosed", cliOpen |-> FALSE, c2s |-> <<>>, s2c |-> <<>>,
              lost |-> FALSE]
        ELSE cs[n]]


(* The client before main runs; game is the struct TTT_Game of tictactoe   *)
(* ({0} until init_game), attempts the static of game_available.  ctx,     *)
(* reqs, fails and dboard record, for the discovery in progress, who       *)
(* called get_new_server, the REQUEST_GAME datagrams sent, the connects    *)
(* that failed and the board when the disconnect was seen; repeats counts, *)
(* over the life of the process, the calls of get_new_server made by       *)
(* game_available; opened is the command the client sent first on the     *)
(* connection it made last (-1: no connection made yet).                   *)
ZeroGame == [sd |-> 0, gameNum |-> 0, winner |-> 0, board |-> [i \in Cells |-> 0]]
InitCli ==
    [pc |-> "start", sd |-> CliFdBase, game |-> ZeroGame, attempts |-> MC_ATTEMPTS,
     ctx |-> "main", reqs |-> 0, fails |-> 0, dboard |-> ZeroGame.board,
     repeats |-> 0, opened |-> -1, status |-> "running"]

-----------------------------------------------------------------------------
(* Inputs from remote players other than the modelled client               *)

SessionMsgs ==
    {TcpMsg(VERSION, NEW_GAME, 0, 0), TcpMsg(VERSION, GAME_OVER, 0, 1),
     TcpMsg(VERSION, RESUME_GAME, 0, 1)}
    \cup {TcpMsg(VERSION, MOVE, dg, 1) :
            dg \in {ASCII_0, ASCII_0 + 2, ASCII_0 + 5, ASCII_0 + 9}}
    \cup {TcpMsg(VERSION - 1, MOVE, ASCII_0 + 5, 1), TcpMsg(VERSION, REQUEST_GAME, 0, 1),
          TcpMsg(VERSION, ToByte(-1), 0, 1), TcpMsg(VERSION, MOVE, ASCII_0 + 5, 0),
          TcpMsg(VERSION, MOVE, ASCII_0 + 5, MAX_GAMES + 1),
          TcpMsg(VERSION, RESUME_GAME, 0, ToByte(-1)), TcpMsg(VERSION, GAME_OVER, 0, 0)}
RosterMsgs ==
    {TcpMsg(VERSION, NEW_GAME, 0, 0), TcpMsg(VERSION - 1, MOVE, ASCII_0 + 5, 1),
     TcpMsg(VERSION, GAME_OVER, 0, 2)}

(* A snapshot with X on the cells xs and O on the cells os.                *)
Snap(xs, os) ==
    [i \in Cells |-> IF i \in xs THEN P1_MARK ELSE IF i \in os THEN P2_MARK ELSE 0]
SessionSnaps ==
    {Snap({}, {}), Snap({5}, {1}), Snap({1, 2}, {4, 5}), Snap({1, 2, 3}, {4, 5, 6}),
     Snap({1, 3, 4, 8}, {2, 5, 6, 7}), Snap({4, 7, 8}, {1, 3, 9}),
     Snap({3, 4, 8}, {2, 5, 7}), Snap({1}, {}),
     [Snap({1}, {5}) EXCEPT ![8] = ASCII_0 + 9]}

(* Every snapshot load_shared_state accepts: the positions of alternating *)
(* play in which the server is to move.                                    *)
PlaySnaps == {snap \in [Cells -> {0, P1_MARK, P2_MARK}] : load_ok(snap)}

-----------------------------------------------------------------------------
(* Initial state: both processes just started                              *)

Init ==
    /\ gameRoster = init_game_roster
    /\ srvFds = [f \in SrvFdRange |-> NoPeer]
    /\ srvState = "run"
    /\ recvOn = 0
    /\ servPort \in {MC_PORT, OtherPort}
    /\ restarts = 0
    /\ cli = InitCli
    /\ cliFds = [f \in CliFdRange |-> IF f = CliFdBase THEN Unconnected ELSE NoPeer]
    /\ conns = [n \in ConnIds |->
                  [st |-> "unused", cliOpen |-> FALSE, c2s |-> <<>>, s2c |-> <<>>,
                   lost |-> FALSE]]
    /\ udpSrv = 0
    /\ udpCli = <<>>
    /\ ev = [kind |-> "init"]

-----------------------------------------------------------------------------
(* Server actions (one readiness event of the select loop each)            *)

BoundSlots == {s \in Slots : gameRoster[s].sd >= 0}

(* tictactoe, lines 992-1016: the listening socket is ready.  The pending  *)
(* connection is the client's oldest one in the backlog or another         *)
(* player's; others: how many other players may be connected already.      *)
Backlog == {n \in ConnIds : conns[n].st = "backlog"}
SrvAcceptPeer(peer) ==
    LET connected_sd == LowestFree(srvFds, SrvFdRange)
        gameIndx     == find_open_game(gameRoster)
    IN  /\ srvState = "run"
        /\ \E f \in SrvFdRange : srvFds[f] = NoPeer
        /\ IF gameIndx > 0
           THEN /\ gameRoster' = [gameRoster EXCEPT ![gameIndx].sd = connected_sd]
                /\ srvFds' = [srvFds EXCEPT ![connected_sd] = peer]
                /\ conns' = IF peer \in ConnIds
                            THEN [conns EXCEPT ![peer].st = "accepted"]
                            ELSE conns
           ELSE /\ UNCHANGED <<gameRoster, srvFds>>
                /\ conns' = IF peer \in ConnIds
                            THEN Settled([conns EXCEPT
                                            ![peer].st = "srvclosed",
                                            ![peer].lost = (conns[peer].c2s # <<>>),
                                            ![peer].c2s = <<>>])
                            ELSE conns
        /\ ev' = [kind |-> "accept", peer |-> peer, fd |-> connected_sd,
                  slot |-> gameIndx, closed |-> (gameIndx = 0),
                  pre |-> gameRoster]
        /\ UNCHANGED <<srvState, recvOn, servPort, restarts, cli, cliFds, udpSrv, udpCli>>

SrvAcceptEnv(others) ==
    /\ Cardinality({f \in SrvFdRange : srvFds[f] = EnvPeer}) \in others
    /\ SrvAcceptPeer(EnvPeer)

SrvAcceptCli ==
    /\ Backlog # {}
    /\ SrvAcceptPeer(CHOOSE n \in Backlog : \A o \in Backlog : n <= o)

(* tictactoe, lines 1027-1033: get_tcp_command and what follows it.  tm =  *)
(* <<>>: recv returned 0 or an error; snap = <<>>: so did the read of the  *)
(* snapshot.                                                               *)
ServeSlot(tm, game, snap, sendOk) ==
    IF tm = <<>> THEN ResetOutcome(game, <<>>, "none", FALSE)
    ELSE Dispatch(tm, game, snap, sendOk)

(* Bytes of a sequence of 4-byte commands.                                 *)
RECURSIVE Concat(_)
Concat(seqs) == IF seqs = <<>> THEN <<>> ELSE Head(seqs) \o Concat(Tail(seqs))
MsgBytes(sent) == Concat([k \in 1..Len(sent) |-> TcpBytes(sent[k])])

(* The slot handed to the handler, were it looked up by msg.gameNum.       *)
currentGameByNum(s, tm) ==
    IF tm # <<>> /\ tm.gameNum \in Slots THEN tm.gameNum ELSE s

(* tictactoe, line 1020: the slot handed to get_tcp_command and to the     *)
(* handler is the one of the loop index, whatever msg.gameNum says.        *)
currentGame(s, tm) == s

SlotEv(s, peer, tm, snap, sendOk, res) ==
    [kind |-> "slot", slot |-> s, peer |-> peer, tm |-> tm, snap |-> snap,
     sendOk |-> sendOk, pre |-> gameRoster, res |-> res]

(* One readiness event of slot s with outcome res: its effect on the slot, *)
(* its descriptor and the peer's connection.  send() can fail only if the  *)
(* peer has gone; rest is what the peer sent and was not read.             *)
SlotStep(s, peer, tm, snap, sendOk, rest, res) ==
    /\ ~sendOk => /\ res.sent # <<>>
                  /\ (peer \in ConnIds => ~conns[peer].cliOpen)
    /\ gameRoster' = [gameRoster EXCEPT ![currentGame(s, tm)] = res.game]
    /\ srvFds' = IF res.closed
                  THEN [srvFds EXCEPT ![gameRoster[currentGame(s, tm)].sd] = NoPeer]
                  ELSE srvFds
    /\ srvState' = IF res.hang THEN "hung" ELSE "run"
    /\ recvOn' = 0
    /\ conns' = IF peer \in ConnIds
                THEN Settled([conns EXCEPT
                        ![peer].st = IF res.closed THEN "srvclosed" ELSE @,
                        ![peer].c2s = IF res.closed THEN <<>> ELSE rest,
                        ![peer].lost = res.closed /\ rest # <<>>,
                        ![peer].s2c = IF sendOk /\ conns[peer].cliOpen
                                      THEN @ \o MsgBytes(res.sent) ELSE @])
                ELSE conns
    /\ ev' = SlotEv(s, peer, tm, snap, sendOk, res)
    /\ UNCHANGED <<servPort, restarts, cli, cliFds, udpSrv, udpCli>>

(* tictactoe, lines 1019-1035: the socket of slot s is ready and its peer  *)
(* is a player other than the client.                                      *)
SrvSlotEnv(s, msgs, snaps) ==
    /\ srvState = "run"
    /\ gameRoster[s].sd > 0
    /\ srvFds[gameRoster[s].sd] = EnvPeer
    /\ \E tm \in msgs \cup {<<>>}, sendOk \in BOOLEAN :
         \E snap \in IF tm # <<>> /\ ValidTcp(tm) /\ tm.command = RESUME_GAME
                     THEN snaps \cup {<<>>} ELSE {<<>>} :
           SlotStep(s, EnvPeer, tm, snap, sendOk, <<>>,
                    ServeSlot(tm, gameRoster[currentGame(s, tm)], snap, sendOk))

(* resume_game, lines 655-679: a remote player whose first command on its *)
(* slot is RESUME_GAME with a snapshot of PlaySnaps.                       *)
SrvResumeEnv(s) ==
    /\ gameRoster[s].board = init_shared_state
    /\ gameRoster[s].winner = -1
    /\ SrvSlotEnv(s, {TcpMsg(VERSION, RESUME_GAME, 0, ToByte(s))}, PlaySnaps)

(* get_tcp_command, lines 537-550, and load_shared_state, lines 364-376:   *)
(* the peer of slot s has sent fewer bytes than the loop asks for (part of *)
(* a command; a RESUME_GAME command without all of its snapshot) and keeps *)
(* its connection open.  The sockets are blocking: recv does not return.   *)
SrvRecvBlocks(s) ==
    /\ srvState = "run"
    /\ gameRoster[s].sd > 0
    /\ srvFds[gameRoster[s].sd] = EnvPeer
    /\ \E where \in {"recv", "load"} : srvState' = where
    /\ recvOn' = s
    /\ ev' = [kind |-> "block", slot |-> s, pre |-> gameRoster]
    /\ UNCHANGED <<gameRoster, srvFds, servPort, restarts, cli, cliFds, conns,
                   udpSrv, udpCli>>

(* recv returns at last: the peer has sent the missing bytes or closed.    *)
(* A command received in parts is stored through msg+bytes, a pointer to   *)
(* struct TCP_Buffer, so what the handler sees of it is any message.       *)
SrvRecvReturns(s, msgs, snaps) ==
    /\ srvState \in {"recv", "load"}
    /\ recvOn = s
    /\ \E tm \in IF srvState = "recv" THEN msgs \cup {<<>>}
                  ELSE {TcpMsg(VERSION, RESUME_GAME, 0, ToByte(s))},
          sendOk \in BOOLEAN :
         \E snap \in IF tm # <<>> /\ ValidTcp(tm) /\ tm.command = RESUME_GAME
                     THEN snaps \cup {<<>>} ELSE {<<>>} :
           SlotStep(s, EnvPeer, tm, snap, sendOk, <<>>,
                    ServeSlot(tm, gameRoster[currentGame(s, tm)], snap, sendOk))

(* What get_tcp_command and load_shared_state read from the bytes a peer   *)
(* has sent: the command is the first four bytes, the snapshot the next    *)
(* nine.  With too few bytes left the read ends when the peer closes.      *)
StreamRead(bytes) ==
    LET eof   == Len(bytes) < TCP_CMD_SIZE
        tm    == IF eof THEN <<>> ELSE TcpOfBytes(SubSeq(bytes, 1, TCP_CMD_SIZE))
        more  == IF eof THEN <<>> ELSE SubSeq(bytes, TCP_CMD_SIZE + 1, Len(bytes))
        wants == ~eof /\ ValidTcp(tm) /\ tm.command = RESUME_GAME
        whole == Len(more) >= GAME_SIZE
    IN  [tm |-> tm,
         snap |-> IF wants /\ whole THEN [i \in Cells |-> more[i]] ELSE <<>>,
         rest |-> IF ~wants THEN more
                  ELSE IF whole THEN SubSeq(more, GAME_SIZE + 1, Len(more)) ELSE <<>>,
         short |-> eof \/ (wants /\ ~whole)]

(* The same event when the peer is the client.                             *)
SrvSlotCli(s) ==
    /\ srvState = "run"
    /\ gameRoster[s].sd > 0
    /\ srvFds[gameRoster[s].sd] \in ConnIds
    /\ \E peer \in {srvFds[gameRoster[s].sd]}, sendOk \in BOOLEAN :
         \E rd \in {StreamRead(conns[peer].c2s)} :
            /\ rd.short => ~conns[peer].cliOpen
            /\ SlotStep(s, peer, rd.tm, rd.snap, sendOk, rd.rest,
                        ServeSlot(rd.tm, gameRoster[currentGame(s, rd.tm)], rd.snap,
                                  sendOk))

(* struct UDP_Buffer of the server and the sender the client sees.         *)
Dgram(version, command, port, src, srcPort) ==
    [version |-> version, command |-> command, port |-> port, src |-> src,
     srcPort |-> srcPort]
(* send_game_available: the datagram leaves the multicast socket, which    *)
(* is bound to MC_PORT.                                                    *)
GameAvailableDgram ==
    Dgram(VERSION, GAME_AVAILABLE, Htons(servPort), "server", Htons(MC_PORT))

(* get_udp_command, validation part (server and client alike).             *)
ValidUdp(version, command) ==
    IF version # VERSION THEN FALSE
    ELSE IF SChar(command) < REQUEST_GAME \/ SChar(command) > GAME_AVAILABLE THEN FALSE
    ELSE TRUE

(* request_game answering whatever the roster holds.                       *)
request_game_always(roster) == TRUE

(* request_game: "find_open_game(serv) >= 0".                              *)
request_game_answers(roster) == find_open_game(roster) > 0

(* The switch on datagram.command with every case calling request_game.    *)
calls_request_game_any(command) == TRUE

(* tictactoe, lines 980-987: the switch on datagram.command calls          *)
(* request_game for REQUEST_GAME only; GAME_AVAILABLE is reported as       *)
(* unsupported.                                                            *)
calls_request_game(command) == command = REQUEST_GAME

EnvUdp == {<<VERSION, REQUEST_GAME>>, <<VERSION, GAME_AVAILABLE>>,
           <<VERSION - 1, REQUEST_GAME>>, <<VERSION, RESUME_GAME>>}

(* tictactoe, lines 974-989: the multicast socket is ready.  fromCli: the  *)
(* datagram is the client's REQUEST_GAME; else it is dg, sent by another   *)
(* host, whose answer the model does not follow.                           *)
SrvDatagram(fromCli, dg) ==
    LET answers == /\ ValidUdp(dg[1], dg[2])
                   /\ calls_request_game(dg[2])
                   /\ request_game_answers(gameRoster)
    IN  /\ srvState = "run"
        /\ IF fromCli
           THEN /\ udpSrv > 0
                /\ dg = <<VERSION, REQUEST_GAME>>
                /\ udpSrv' = udpSrv - 1
                /\ udpCli' = IF answers /\ Len(udpCli) < MaxUdpQueue
                             THEN Append(udpCli, GameAvailableDgram) ELSE udpCli
           ELSE UNCHANGED <<udpSrv, udpCli>>
        /\ ev' = [kind |-> "udp", fromCli |-> fromCli, dg |-> dg,
                  sent |-> IF answers THEN <<GameAvailableDgram>> ELSE <<>>,
                  to |-> IF fromCli THEN "client" ELSE "other",
                  pre |-> gameRoster]
        /\ UNCHANGED <<gameRoster, srvFds, srvState, recvOn, servPort, restarts, cli,
                       cliFds, conns>>

SrvDatagramCli == SrvDatagram(TRUE, <<VERSION, REQUEST_GAME>>)
SrvDatagramEnv == \E dg \in EnvUdp : SrvDatagram(FALSE, dg)

(* The server process ends (killed by its operator, or aborted): every     *)
(* connection of it is closed by the kernel, queued datagrams are gone.    *)
SrvStop ==
    /\ srvState # "down"
    /\ srvState' = "down"
    /\ recvOn' = 0
    /\ gameRoster' = init_game_roster
    /\ srvFds' = [f \in SrvFdRange |-> NoPeer]
    /\ conns' = Settled([n \in ConnIds |->
                  IF conns[n].st \in {"backlog", "accepted"}
                  THEN [conns[n] EXCEPT !.st = "srvclosed",
                                        !.lost = (conns[n].c2s # <<>>), !.c2s = <<>>]
                  ELSE conns[n]])
    /\ udpSrv' = 0
    /\ ev' = [kind |-> "stop"]
    /\ UNCHANGED <<servPort, restarts, cli, cliFds, udpCli>>

(* main and the start of tictactoe: the server is started again.           *)
SrvStart ==
    /\ srvState = "down"
    /\ restarts < MaxRestarts
    /\ srvState' = "run"
    /\ recvOn' = 0
    /\ restarts' = restarts + 1
    /\ gameRoster' = init_game_roster
    /\ ev' = [kind |-> "start"]
    /\ UNCHANGED <<srvFds, servPort, cli, cliFds, conns, udpSrv, udpCli>>

-----------------------------------------------------------------------------
(* Client (Player 2)                                                       *)

(* init_game.                                                              *)
init_game(sd) ==
    [sd |-> sd, gameNum |-> -1, winner |-> -1, board |-> init_shared_state]

(* send_resume_game sending the board as it is stored.                     *)
BoardStateRaw(board) == board

(* The nine bytes send_resume_game builds from the client's board.         *)
BoardState(board) ==
    [i \in Cells |-> IF board[i] = P1_MARK \/ board[i] = P2_MARK THEN board[i] ELSE 0]

(* The command send_resume_game sends: gameNum is set to -1 first.         *)
ResumeGameMsg == TcpMsg(VERSION, RESUME_GAME, 0, ToByte(-1))
NewGameMsg == TcpMsg(VERSION, NEW_GAME, 0, 0)

(* get_tcp_command of the client, validation part.                         *)
CliValidTcp(tm) ==
    IF tm.version # VERSION THEN FALSE
    ELSE IF SChar(tm.command) < NEW_GAME \/ SChar(tm.command) > GAME_OVER THEN FALSE
    ELSE TRUE

UnusedConns == {n \in ConnIds : conns[n].st = "unused"}
NewConn == CHOOSE n \in UnusedConns : \A o \in UnusedConns : n <= o
OpenedConn(bytes) ==
    [st |-> "backlog", cliOpen |-> TRUE, c2s |-> bytes, s2c |-> <<>>, lost |-> FALSE]

CliEv(op, input, target, connected, tcp, reqs) ==
    [kind |-> "cli", op |-> op, input |-> input, target |-> target,
     connected |-> connected, tcp |-> tcp, reqs |-> reqs, pre |-> cli]

(* send_request_game: the datagram reaches the server's multicast socket   *)
(* if there is a server process and room in its queue.                     *)
RequestSent ==
    udpSrv' = IF srvState # "down" /\ udpSrv < MaxUdpQueue THEN udpSrv + 1 ELSE udpSrv

(* leave_game: close(game->sd), exit.                                      *)
LeftCli(c) == [c EXCEPT !.pc = "done", !.status = "success"]
ClosedByCli(fd) ==
    /\ cliFds' = [cliFds EXCEPT ![fd] = NoPeer]
    /\ conns' = IF cliFds[fd] \in ConnIds
                THEN Settled([conns EXCEPT ![cliFds[fd]].cliOpen = FALSE]) ELSE conns

(* The client starting a game only when connect in main succeeded.         *)
StartsGameDirect(c) == c.ctx = "main" /\ c.pc = "start"

(* main, lines 448-455, and tictactoe, lines 1123-1124 and 1136-1138: the  *)
(* connection made by main, or by the get_new_server main called, is       *)
(* followed by init_game and send_new_game; the one made by the            *)
(* get_new_server of the game loop by send_resume_game.                    *)
StartsGame(c) == c.ctx = "main"

(* What follows a successful connect on descriptor fd, in main's caller    *)
(* chain (tictactoe: init_game, send_new_game) or in the game loop         *)
(* (send_resume_game on game->sd).                                         *)
AfterConnect(fd, op, input, target) ==
    LET n == NewConn
    IN  /\ UnusedConns # {}
        /\ cliFds' = [cliFds EXCEPT ![fd] = n]
        /\ IF StartsGame(cli)
           THEN /\ cli' = [cli EXCEPT !.pc = "play", !.sd = fd, !.game = init_game(fd),
                                      !.opened = NEW_GAME]
                /\ conns' = [conns EXCEPT ![n] = OpenedConn(TcpBytes(NewGameMsg))]
                /\ ev' = CliEv(op, input, target, TRUE, TcpBytes(NewGameMsg), 0)
           ELSE LET bytes == TcpBytes(ResumeGameMsg) \o BoardState(cli.game.board)
                IN  /\ cli' = [cli EXCEPT !.pc = "play", !.sd = fd, !.game.gameNum = -1,
                                          !.opened = RESUME_GAME]
                    /\ conns' = [conns EXCEPT
                                   ![n] = OpenedConn(IF cli.game.sd = fd THEN bytes ELSE <<>>)]
                    /\ ev' = CliEv(op, input, target, TRUE, bytes, 0)

(* main: connect to the server named on the command line; it succeeds or   *)
(* not (the address is the user's), and needs a server process.            *)
CliStart ==
    /\ cli.pc = "start"
    /\ \/ /\ srvState # "down"
          /\ AfterConnect(cli.sd, "start", <<>>, "argv")
          /\ UNCHANGED udpSrv
       \/ /\ cli' = [cli EXCEPT !.pc = "discover", !.ctx = "main", !.reqs = 1, !.fails = 0]
          /\ cliFds' = [cliFds EXCEPT ![cli.sd] = NoPeer]
          /\ RequestSent
          /\ ev' = CliEv("start", <<>>, "argv", FALSE, <<>>, 1)
          /\ UNCHANGED conns
    /\ UNCHANGED <<gameRoster, srvFds, srvState, recvOn, servPort, restarts, udpCli>>

(* Datagrams from hosts other than the server; none of them accepts a      *)
(* connection.  The last one is the empty datagram: recvfrom returns 0 and *)
(* leaves the zeroed buffer as it is, get_udp_command returns ERROR_CODE.  *)
EnvCliDgrams ==
    {Dgram(VERSION, GAME_AVAILABLE, Htons(OtherPort), "other", Htons(MC_PORT)),
     Dgram(VERSION, REQUEST_GAME, 0, "other", Htons(OtherPort)),
     Dgram(VERSION - 1, GAME_AVAILABLE, Htons(OtherPort), "other", Htons(MC_PORT)),
     Dgram(VERSION, RESUME_GAME, 0, "other", Htons(MC_PORT)),
     Dgram(0, 0, 0, "other", Htons(OtherPort))}

(* game_available: the address and port connect() is given.                *)
ConnectSucceeds(target) ==
    target.addr = "server" /\ srvState # "down" /\ target.port = servPort

(* game_available giving up one failed connect later.                      *)
attempts_exhausted_late(attempts) == attempts < 0

(* game_available, line 719: "attempts-- <= 0" on the value before the     *)
(* decrement.                                                              *)
attempts_exhausted(attempts) == attempts <= 0

(* get_new_server after get_udp_command returned a datagram dg (the        *)
(* client reads its first two bytes and its sender).                       *)
CliOnDatagram(dg) ==
    LET fd     == LowestFree(cliFds, CliFdRange)
        target == [addr |-> dg.src, port |-> Ntohs(dg.srcPort)]
    IN  IF ~ValidUdp(dg.version, dg.command)
        THEN /\ ev' = CliEv("discover", dg, <<>>, FALSE, <<>>, 0)
             /\ UNCHANGED <<cli, cliFds, conns, udpSrv>>
        ELSE IF ConnectSucceeds(target)
        THEN /\ AfterConnect(fd, "discover", dg, target)
             /\ UNCHANGED udpSrv
        ELSE IF attempts_exhausted(cli.attempts)
        THEN /\ cli' = [cli EXCEPT !.pc = "done", !.status = "failure",
                                   !.attempts = @ - 1, !.fails = @ + 1]
             /\ ev' = CliEv("discover", dg, target, FALSE, <<>>, 0)
             /\ UNCHANGED <<cliFds, conns, udpSrv>>
        ELSE /\ cli' = [cli EXCEPT !.attempts = @ - 1, !.fails = @ + 1,
                                   !.reqs = @ + 1, !.sd = fd, !.repeats = @ + 1]
             /\ RequestSent
             /\ ev' = CliEv("discover", dg, target, FALSE, <<>>, 1)
             /\ UNCHANGED <<cliFds, conns>>

(* get_new_server, the wait in get_udp_command: the receive times out      *)
(* (exit(0)), or returns the oldest queued datagram, or one of another     *)
(* host.                                                                   *)
CliTimeout ==
    /\ cli.pc = "discover"
    /\ udpCli = <<>>
    /\ cli' = [cli EXCEPT !.pc = "done", !.status = "exit0"]
    /\ ev' = CliEv("timeout", <<>>, <<>>, FALSE, <<>>, 0)
    /\ UNCHANGED <<gameRoster, srvFds, srvState, recvOn, servPort, restarts, cliFds,
                   conns, udpSrv, udpCli>>

CliDiscover ==
    /\ cli.pc = "discover"
    /\ udpCli # <<>>
    /\ udpCli' = Tail(udpCli)
    /\ CliOnDatagram(Head(udpCli))
    /\ UNCHANGED <<gameRoster, srvFds, srvState, recvOn, servPort, restarts>>

CliDiscoverEnv ==
    /\ cli.pc = "discover"
    /\ \E dg \in EnvCliDgrams : CliOnDatagram(dg)
    /\ UNCHANGED <<gameRoster, srvFds, srvState, recvOn, servPort, restarts, udpCli>>

(* get_move and the loop of send_p2_move: the user enters numbers until   *)
(* validate_move accepts one; UserCells are the numbers this user enters.  *)
UserCells == {2, 3, 4, 5, 9}
ValidMoves(game) == {choice \in UserCells : validate_move(choice, game)}

(* send() of the client on its connection n: it succeeds while the server  *)
(* end is open; after the server closed it, it succeeds or fails.          *)
CliSendResults(n) ==
    IF conns[n].st = "srvclosed" THEN BOOLEAN ELSE {TRUE}
CliSent(n, bytes, stillOpen) ==
    Settled([conns EXCEPT
               ![n].c2s = IF conns[n].st = "srvclosed" THEN @ ELSE @ \o bytes,
               ![n].s2c = IF Len(@) >= TCP_CMD_SIZE
                          THEN SubSeq(@, TCP_CMD_SIZE + 1, Len(@)) ELSE @,
               ![n].cliOpen = stillOpen])

(* The client leaving on an invalid message and on GAME_OVER only.         *)
cli_leaves_on_end(tm) == ~CliValidTcp(tm) \/ tm.command = GAME_OVER

(* tictactoe of the client, lines 1131-1142, with new_game (770-774) and   *)
(* game_over (841-855): leave_game is called on an invalid message and on  *)
(* every valid command but MOVE.                                           *)
cli_leaves(tm) == ~CliValidTcp(tm) \/ tm.command # MOVE

(* A server of another make at the other end of the client's connection:   *)
(* it sends a message of CliPeerMsgs when the client has read all it was   *)
(* sent, or closes the connection.                                         *)
CliPeerMsgs ==
    {TcpMsg(VERSION, NEW_GAME, ASCII_0 + 5, 1), TcpMsg(VERSION, RESUME_GAME, 0, 1),
     TcpMsg(VERSION, GAME_OVER, 0, 1), TcpMsg(VERSION - 1, MOVE, ASCII_0 + 1, 1),
     TcpMsg(VERSION, MOVE, ASCII_0 + 1, 1), TcpMsg(VERSION, MOVE, ASCII_0 + 5, 1),
     TcpMsg(VERSION, MOVE, ASCII_0 + 7, 1)}
PeerSends ==
    /\ cli.pc = "play"
    /\ cliFds[cli.game.sd] \in ConnIds
    /\ conns[cliFds[cli.game.sd]].st # "srvclosed"
    /\ conns[cliFds[cli.game.sd]].s2c = <<>>
    /\ \E tm \in CliPeerMsgs :
          conns' = [conns EXCEPT ![cliFds[cli.game.sd]].s2c = TcpBytes(tm)]
    /\ ev' = [kind |-> "peer", sent |-> conns'[cliFds[cli.game.sd]].s2c]
    /\ UNCHANGED <<gameRoster, srvFds, srvState, recvOn, servPort, restarts, cli,
                   cliFds, udpSrv, udpCli>>
PeerCloses ==
    /\ cli.pc = "play"
    /\ cliFds[cli.game.sd] \in ConnIds
    /\ conns[cliFds[cli.game.sd]].st # "srvclosed"
    /\ conns[cliFds[cli.game.sd]].s2c = <<>>
    /\ conns' = [conns EXCEPT ![cliFds[cli.game.sd]].st = "srvclosed"]
    /\ ev' = [kind |-> "peer", sent |-> <<>>]
    /\ UNCHANGED <<gameRoster, srvFds, srvState, recvOn, servPort, restarts, cli,
                   cliFds, udpSrv, udpCli>>

(* tictactoe of the client, one turn of its loop: get_tcp_command on       *)
(* game.sd returned.  The client's move, check_win, check_draw,            *)
(* check_game_over and validate_move are the server's, with the marks      *)
(* exchanged in move.                                                      *)
CliRecv ==
    /\ cli.pc = "play"
    /\ cliFds[cli.game.sd] \in ConnIds
    /\ LET fd   == cli.game.sd
           n    == cliFds[fd]
           data == conns[n].s2c
       IN  IF Len(data) >= TCP_CMD_SIZE
           THEN LET tm == TcpOfBytes(SubSeq(data, 1, TCP_CMD_SIZE))
                    g1 == IF cli.game.gameNum < 0
                          THEN [cli.game EXCEPT !.gameNum = SChar(tm.gameNum)]
                          ELSE cli.game
                    mv == SChar(tm.data) - ASCII_0
                    g2 == [g1 EXCEPT !.board[mv] = P1_MARK]
                IN  IF cli_leaves(tm)
                    THEN \* leave_game (invalid command, NEW_GAME, GAME_OVER)
                         /\ cli' = LeftCli(cli)
                         /\ cliFds' = [cliFds EXCEPT ![fd] = NoPeer]
                         /\ conns' = CliSent(n, <<>>, FALSE)
                         /\ ev' = CliEv("recv", tm, <<>>, FALSE, <<>>, 0)
                         /\ UNCHANGED udpSrv
                    ELSE IF ~validate_move(mv, g1)
                    THEN /\ cli' = LeftCli([cli EXCEPT !.game = g1])
                         /\ cliFds' = [cliFds EXCEPT ![fd] = NoPeer]
                         /\ conns' = CliSent(n, <<>>, FALSE)
                         /\ ev' = CliEv("recv", tm, <<>>, FALSE, <<>>, 0)
                         /\ UNCHANGED udpSrv
                    ELSE IF GameOverNow(g2.board)
                    THEN \* send_game_over, leave_game
                         LET bytes == TcpBytes(TcpMsg(VERSION, GAME_OVER, 0, ToByte(g2.gameNum)))
                         IN  /\ cli' = LeftCli([cli EXCEPT !.game = check_game_over(g2)])
                             /\ cliFds' = [cliFds EXCEPT ![fd] = NoPeer]
                             /\ conns' = CliSent(n, bytes, FALSE)
                             /\ ev' = CliEv("recv", tm, <<>>, FALSE, bytes, 0)
                             /\ UNCHANGED udpSrv
                    ELSE \* send_p2_move with the move the user enters
                         \E choice \in ValidMoves(g2), sendOk \in CliSendResults(n) :
                            LET bytes == TcpBytes(TcpMsg(VERSION, MOVE,
                                             ToByte(choice + ASCII_0), ToByte(g2.gameNum)))
                                g3 == [g2 EXCEPT !.board[choice] = P2_MARK]
                            IN  /\ cli' = IF sendOk
                                          THEN [cli EXCEPT !.game = check_game_over(g3)]
                                          ELSE LeftCli([cli EXCEPT !.game = g2])
                                /\ cliFds' = IF sendOk THEN cliFds
                                             ELSE [cliFds EXCEPT ![fd] = NoPeer]
                                /\ conns' = CliSent(n, bytes, sendOk)
                                /\ ev' = CliEv("recv", tm, <<>>, FALSE, bytes, 0)
                                /\ UNCHANGED udpSrv
           ELSE /\ conns[n].st = "srvclosed"
                /\ \/ \* recv returned 0: get_new_server, up to its wait
                      /\ cli' = [cli EXCEPT !.pc = "discover", !.ctx = "loop",
                                            !.reqs = 1, !.fails = 0,
                                            !.dboard = cli.game.board]
                      /\ ClosedByCli(cli.sd)
                      /\ RequestSent
                      /\ ev' = CliEv("eof", <<>>, <<>>, FALSE, <<>>, 1)
                   \/ \* recv failed (connection reset): leave_game
                      /\ conns[n].lost
                      /\ cli' = LeftCli(cli)
                      /\ ClosedByCli(fd)
                      /\ ev' = CliEv("error", <<>>, <<>>, FALSE, <<>>, 0)
                      /\ UNCHANGED udpSrv
    /\ UNCHANGED <<gameRoster, srvFds, srvState, recvOn, servPort, restarts, udpCli>>

(* The player leaves the game: the user ends the client process while it  *)
(* waits for the server's move, which closes the connection.               *)
CliQuits ==
    /\ cli.pc = "play"
    /\ cliFds[cli.game.sd] \in ConnIds
    /\ cli' = [cli EXCEPT !.pc = "done", !.status = "ended"]
    /\ ClosedByCli(cli.game.sd)
    /\ ev' = CliEv("quit", <<>>, <<>>, FALSE, <<>>, 0)
    /\ UNCHANGED <<gameRoster, srvFds, srvState, recvOn, servPort, restarts, udpSrv,
                   udpCli>>

-----------------------------------------------------------------------------
(* Specifications                                                          *)

(* The sessions of one remote player, connecting when no other player is   *)
(* connected, with every command and snapshot of the input sets.  A        *)
(* handler is given its own slot only; what a step does to the other       *)
(* slots is the subject of SpecRoster.                                     *)
Next ==
    \/ SrvAcceptEnv({0})
    \/ \E s \in Slots : SrvSlotEnv(s, SessionMsgs, SessionSnaps)
(* The listening port plays no part in a session.                          *)
InitSession == Init /\ servPort = MC_PORT
Spec == InitSession /\ [][Next]_vars

(* More remote players than slots: the roster.  The players of the first   *)
(* RosterActive slots send a command or disconnect; the others stay        *)
(* connected and silent.                                                   *)
NextRoster ==
    \/ SrvAcceptEnv(0..MAX_GAMES)
    \/ \E s \in 1..RosterActive : SrvSlotEnv(s, RosterMsgs, {})
    \/ SrvDatagramEnv
SpecRoster == InitSession /\ [][NextRoster]_vars

(* RecvPeers remote players, each of which may send its bytes in parts,    *)
(* and the multicast group.                                                *)
NextRecv ==
    \/ SrvAcceptEnv(0..(RecvPeers - 1))
    \/ \E s \in 1..RecvPeers : SrvSlotEnv(s, RosterMsgs, {})
    \/ \E s \in 1..RecvPeers : SrvRecvBlocks(s)
    \/ \E s \in 1..RecvPeers : SrvRecvReturns(s, RosterMsgs, {Snap({}, {})})
    \/ SrvDatagramEnv
SpecRecv == InitSession /\ [][NextRecv]_vars

(* The client, the server it plays with, and the server's restarts.        *)
NextFailover ==
    \/ CliStart
    \/ CliRecv
    \/ CliTimeout
    \/ CliDiscover
    \/ CliDiscoverEnv
    \/ SrvAcceptCli
    \/ \E s \in Slots : SrvSlotCli(s)
    \/ SrvDatagramCli
    \/ SrvStop
    \/ SrvStart
SpecFailover == Init /\ [][NextFailover]_vars

(* The client with a server of another make: any command may reach it.    *)
NextClient ==
    \/ CliStart
    \/ CliRecv
    \/ PeerSends
    \/ PeerCloses
    \/ CliTimeout
    \/ CliDiscoverEnv
SpecClient == Init /\ [][NextClient]_vars

(* One remote player that plays whole games: every move on every cell,    *)
(* against the moves find_best_move chooses.                               *)
NextPlay ==
    \/ SrvAcceptEnv({0})
    \/ \E s \in Slots :
         SrvSlotEnv(s, {TcpMsg(VERSION, NEW_GAME, 0, 0)}
                         \cup {TcpMsg(VERSION, MOVE, Label(i), 1) : i \in Cells}, {})
SpecPlay == InitSession /\ [][NextPlay]_vars

(* The same player taking up a game in any position first.                 *)
NextPosition ==
    \/ NextPlay
    \/ \E s \in Slots : SrvResumeEnv(s)
SpecPosition == InitSession /\ [][NextPosition]_vars

(* find_best_move on its own.  Positions are the boards it is called on   *)
(* in play: as many X as O and no line of three; a step takes one of them  *)
(* up and the next runs the search on it, from bestMove = -1 and           *)
(* bestValue = INT32_MIN.                                                  *)
Positions ==
    {board \in {load_board(init_shared_state, snap) : snap \in PlaySnaps} :
        check_win(board) = 0}
SearchBegins ==
    /\ ev.kind = "init"
    /\ \E board \in Positions : ev' = [kind |-> "position", board |-> board]
    /\ UNCHANGED <<gameRoster, srvFds, srvState, recvOn, servPort, restarts, cli,
                   cliFds, conns, udpSrv, udpCli>>
SearchRuns ==
    /\ ev.kind = "position"
    /\ ev' = [kind |-> "searched", board |-> ev.board,
              res |-> find_best_move_run(ev.board, 1, -1, INT32_MIN)]
    /\ UNCHANGED <<gameRoster, srvFds, srvState, recvOn, servPort, restarts, cli,
                   cliFds, conns, udpSrv, udpCli>>
NextSearch == SearchBegins \/ SearchRuns
SpecSearch == InitSession /\ [][NextSearch]_vars

(* The client as a player that may leave at any time, next to a remote     *)
(* player that sends part of a command and then the rest of it, or         *)
(* closes its connection.  The server's loop serves a                      *)
(* slot whose socket select reports readable: the step that serves a slot  *)
(* on which recv will return 0 (the player has closed its connection and   *)
(* no whole command of it is unread) is weakly fair.  What the remote      *)
(* player sends, and when, is up to it.  The two players are bound to the  *)
(* first RecvPeers slots.                                                  *)
NextLeave ==
    \/ CliStart
    \/ CliRecv
    \/ CliQuits
    \/ SrvAcceptCli
    \/ \E s \in 1..RecvPeers : SrvSlotCli(s)
    \/ SrvAcceptEnv({0})
    \/ \E s \in 1..RecvPeers : SrvRecvBlocks(s)
    \/ \E s \in 1..RecvPeers : SrvRecvReturns(s, {}, SessionSnaps)
SpecLeave ==
    /\ InitSession
    /\ [][NextLeave]_vars
    /\ \A s \in 1..RecvPeers :
         WF_vars(/\ gameRoster[s].sd > 0
                 /\ srvFds[gameRoster[s].sd] \in ConnIds
                 /\ ~conns[srvFds[gameRoster[s].sd]].cliOpen
                 /\ Len(conns[srvFds[gameRoster[s].sd]].c2s) < TCP_CMD_SIZE
                 /\ SrvSlotCli(s))

(* The same with the client's wait in get_udp_command coming to an end:    *)
(* recvfrom on the multicast socket has the receive timeout MC_TIMEOUT, so *)
(* it returns, with a datagram or with EAGAIN.  A datagram that arrives    *)
(* ends the wait before the timeout does.                                  *)
SpecDiscovery == SpecFailover /\ WF_vars(CliTimeout \/ CliDiscover \/ CliDiscoverEnv)

(* close() on both ends of a connection, reset_game line 411 and           *)
(* get_new_server line 566: nothing of the connection is left, and a later *)
(* connect() makes a connection that is new to both processes.             *)
ConnFreed ==
    /\ \E n \in ConnIds :
          /\ conns[n].st = "srvclosed"
          /\ ~conns[n].cliOpen
          /\ conns' = [conns EXCEPT ![n].st = "unused"]
          /\ ev' = [kind |-> "freed", conn |-> n]
    /\ UNCHANGED <<gameRoster, srvFds, srvState, recvOn, servPort, restarts, cli,
                   cliFds, udpSrv, udpCli>>

(* The client and the server, which may stop and be started again, for as  *)
(* many failovers as the client goes through.  select returns when a       *)
(* socket is ready and the loop serves every ready socket; the client's    *)
(* recv and recvfrom return when bytes, a close or the receive timeout     *)
(* arrive.  Weakly fair are: the client's steps, accept, the answer to a   *)
(* datagram, and the step that serves a slot on which get_tcp_command      *)
(* returns no command (recv returns 0, or the message is rejected).        *)
NextResume ==
    \/ CliStart
    \/ CliRecv
    \/ CliTimeout
    \/ CliDiscover
    \/ SrvAcceptCli
    \/ \E s \in 1..RecvPeers : SrvSlotCli(s)
    \/ SrvDatagramCli
    \/ SrvStop
    \/ SrvStart
    \/ ConnFreed
SpecResume ==
    /\ InitSession
    /\ [][NextResume]_vars
    /\ WF_vars(CliRecv)
    /\ WF_vars(CliTimeout \/ CliDiscover)
    /\ WF_vars(SrvAcceptCli)
    /\ WF_vars(\E s \in 1..RecvPeers :
                 /\ gameRoster[s].sd > 0
                 /\ srvFds[gameRoster[s].sd] \in ConnIds
                 /\ LET rd == StreamRead(conns[srvFds[gameRoster[s].sd]].c2s)
                    IN  IF rd.tm = <<>> THEN TRUE ELSE ~ValidTcp(rd.tm)
                 /\ SrvSlotCli(s))
    /\ WF_vars(SrvDatagramCli)
    /\ WF_vars(ConnFreed)

(* get_tcp_command and the call through commands[] on their own, in the   *)
(* server (part_000 552-563, 1027-1030) and in the client: a message with  *)
(* any command byte is the first to arrive; srv and cli tell whether the   *)
(* process calls commands[(int)msg.command] on it, index is the value of   *)
(* (int)msg.command, the char being signed.                                *)
ByteMsgs ==
    {TcpMsg(version, command, ASCII_0 + 5, gameNum) :
        version \in {VERSION - 1, VERSION}, command \in 0..255,
        gameNum \in {0, 1, MAX_GAMES, MAX_GAMES + 1, 255}}
MessageArrives ==
    /\ ev.kind = "init"
    /\ \E tm \in ByteMsgs :
          ev' = [kind |-> "dispatch", tm |-> tm, srv |-> ValidTcp(tm),
                 cli |-> CliValidTcp(tm), index |-> SChar(tm.command)]
    /\ UNCHANGED <<gameRoster, srvFds, srvState, recvOn, servPort, restarts, cli,
                   cliFds, conns, udpSrv, udpCli>>
SpecDispatch == InitSession /\ [][MessageArrives]_vars

-----------------------------------------------------------------------------
(* Properties                                                              *)

(* The session states of the specification, read off a slot.               *)
SlotIsEmpty(game) ==
    game.sd = -1 /\ game.winner = -1 /\ game.board = [i \in Cells |-> Label(i)]
AwaitingFirstCommand(game) ==
    game.sd >= 0 /\ game.winner = -1 /\ game.board = [i \in Cells |-> Label(i)]

(* A session message that is not valid, by its bytes.                      *)
InvalidSessionMsg(tm) ==
    \/ tm.version # VERSION
    \/ tm.command \notin {NEW_GAME, MOVE, GAME_OVER, RESUME_GAME}
    \/ (tm.command # NEW_GAME /\ tm.gameNum \notin 1..MAX_GAMES)
SlotCommand(command) ==
    /\ ev.kind = "slot"
    /\ ev.tm # <<>>
    /\ ~InvalidSessionMsg(ev.tm)
    /\ ev.tm.command = command

OpenFds == {f \in SrvFdRange : srvFds[f] # NoPeer}
RosterWasFull == ev.kind = "accept" /\ \A s \in Slots : ev.pre[s].sd >= 0

(* C1: at most MAX_GAMES slots are bound, each to an open connection of    *)
(* its own, and no other connection stays open; a connection that arrives  *)
(* while every slot is bound is accepted and closed at once, is bound to   *)
(* no slot, and leaves the handle, board and outcome of every slot as      *)
(* they were.                                                              *)
C1_FullRosterRejects ==
    /\ Cardinality(BoundSlots) <= MAX_GAMES
    /\ Cardinality(OpenFds) <= MAX_GAMES
    /\ \A s \in BoundSlots : gameRoster[s].sd \in OpenFds
    /\ \A s, t \in BoundSlots : gameRoster[s].sd = gameRoster[t].sd => s = t
    /\ RosterWasFull =>
          /\ ev.closed
          /\ srvFds[ev.fd] = NoPeer
          /\ \A s \in Slots : /\ gameRoster[s].sd # ev.fd
                              /\ gameRoster[s].sd = ev.pre[s].sd
                              /\ gameRoster[s].board = ev.pre[s].board
                              /\ gameRoster[s].winner = ev.pre[s].winner

C1_Witness ==
    /\ RosterWasFull
    /\ ev.closed
    /\ \E s \in Slots : gameRoster[s].board # init_shared_state

(* The snapshot of a board as the specification words it: the mark where  *)
(* a mark is, 0 where the cell still holds its label.                      *)
EncodeBoard(board) == [i \in Cells |-> IF board[i] = Label(i) THEN 0 ELSE board[i]]
FirstAttemptResume ==
    /\ ev.kind = "cli"
    /\ ev.connected
    /\ ev.pre.ctx = "loop"
    /\ ev.pre.fails = 0

(* C2: when the client's read returned zero bytes and the first connect    *)
(* after it succeeds, the client has sent one REQUEST_GAME datagram for    *)
(* that disconnect, and what it sends on the new connection is a           *)
(* RESUME_GAME command (not NEW_GAME) followed by nine bytes that encode   *)
(* its board as it was when the read returned zero.                        *)
C2_ResumeAfterDisconnect ==
    FirstAttemptResume =>
        /\ ev.pre.reqs = 1
        /\ Len(ev.tcp) = TCP_CMD_SIZE + GAME_SIZE
        /\ ev.tcp[1] = VERSION
        /\ ev.tcp[2] = RESUME_GAME
        /\ SubSeq(ev.tcp, TCP_CMD_SIZE + 1, TCP_CMD_SIZE + GAME_SIZE)
             = EncodeBoard(ev.pre.dboard)
        /\ cliFds[cli.sd] \in ConnIds
        /\ conns[cliFds[cli.sd]].c2s = ev.tcp

C2_Witness ==
    /\ FirstAttemptResume
    /\ \E i, j \in Cells : ev.pre.dboard[i] = P1_MARK /\ ev.pre.dboard[j] = P2_MARK

(* C3 as the specification states it: the RESUME_GAME command the client   *)
(* sends after a failover, read by a server whose slot awaits its first    *)
(* command, is handled by resume_game, which loads the snapshot and        *)
(* answers; the slot is not reset.                                         *)
C3_ClientResumeAccepted ==
    (/\ ev.kind = "slot"
     /\ ev.peer \in ConnIds
     /\ ev.tm # <<>>
     /\ ev.tm.version = VERSION
     /\ ev.tm.command = RESUME_GAME
     /\ AwaitingFirstCommand(ev.pre[ev.slot]))
    => /\ ev.res.called = "resume_game"
       /\ ev.res.loaded # <<>>
       /\ ev.res.sent # <<>>

(* C4 as the specification states it: the connect that follows a           *)
(* GAME_AVAILABLE datagram of the server goes to the sender's address and  *)
(* to the port carried in the datagram.                                    *)
C4_ConnectsToAdvertisedPort ==
    (/\ ev.kind = "cli"
     /\ ev.op = "discover"
     /\ ev.target # <<>>
     /\ ev.input.command = GAME_AVAILABLE
     /\ ev.input.src = "server")
    => /\ ev.target.addr = ev.input.src
       /\ ev.target.port = Ntohs(ev.input.port)

(* C5: a session message with a version other than 6, a command outside    *)
(* 0..3, or (command other than NEW_GAME) a game number outside 1..10      *)
(* resets the slot to Empty and closes its connection; no handler runs,    *)
(* no move is searched and nothing is sent.                                *)
C5_InvalidMessageResets ==
    (ev.kind = "slot" /\ ev.tm # <<>> /\ InvalidSessionMsg(ev.tm))
    => /\ SlotIsEmpty(gameRoster[ev.slot])
       /\ srvFds[ev.pre[ev.slot].sd] = NoPeer
       /\ ev.res.called = "none"
       /\ ~ev.res.searched
       /\ ev.res.sent = <<>>
       /\ srvState = "run"

C5_Witness ==
    /\ ev.kind = "slot"
    /\ ev.tm # <<>>
    /\ ev.tm.version # VERSION
    /\ ev.pre[ev.slot].board # init_shared_state
    /\ SlotIsEmpty(gameRoster[ev.slot])

(* C6 as the specification states it: a NEW_GAME command is answered with  *)
(* an opening move only on a slot that awaits its first command.           *)
C6_NewGameOnlyWhenAwaiting ==
    (SlotCommand(NEW_GAME) /\ ev.res.sent # <<>> /\ ~ev.res.closed)
    => AwaitingFirstCommand(ev.pre[ev.slot])

(* The board a snapshot stands for: the mark of a mark byte, the cell's    *)
(* label for a 0 byte.                                                     *)
DecodeSnapshot(snap) == [i \in Cells |-> IF snap[i] = 0 THEN Label(i) ELSE snap[i]]

(* C7 as the specification states it: whenever the server accepts a        *)
(* snapshot, the board right after loading is the snapshot decoded.        *)
C7_LoadedBoardIsSnapshot ==
    (ev.kind = "slot" /\ ev.res.loaded # <<>>)
    => ev.res.loaded = DecodeSnapshot(ev.snap)

MarksIn(snap, mark) == Cardinality({i \in Cells : snap[i] = mark})
BadSnapshot(snap) ==
    \/ \E i \in Cells : snap[i] \notin {0, P1_MARK, P2_MARK}
    \/ MarksIn(snap, P1_MARK) # MarksIn(snap, P2_MARK)

(* C8: a snapshot with a byte other than 0, X and O, or with a number of   *)
(* X other than its number of O, is rejected: the slot is reset to Empty,  *)
(* its connection closed, and nothing is sent.                             *)
C8_BadSnapshotRejected ==
    (SlotCommand(RESUME_GAME) /\ ev.snap # <<>> /\ BadSnapshot(ev.snap))
    => /\ ev.res.loaded = <<>>
       /\ SlotIsEmpty(gameRoster[ev.slot])
       /\ srvFds[ev.pre[ev.slot].sd] = NoPeer
       /\ ev.res.sent = <<>>
       /\ ~ev.res.searched

C8_Witness ==
    /\ SlotCommand(RESUME_GAME)
    /\ ev.snap # <<>>
    /\ \A i \in Cells : ev.snap[i] \in {0, P1_MARK, P2_MARK}
    /\ MarksIn(ev.snap, P1_MARK) = MarksIn(ev.snap, P2_MARK) + 1
    /\ SlotIsEmpty(gameRoster[ev.slot])

(* C9 as the specification states it: after a snapshot is accepted (and    *)
(* the peer is there to be sent to), a board that is won or full is        *)
(* answered with GAME_OVER and the slot reset; any other board with one    *)
(* MOVE naming an empty cell, on which the server's mark is placed, the    *)
(* slot staying bound.                                                     *)
C9_ReplyAfterResume ==
    (ev.kind = "slot" /\ ev.res.loaded # <<>> /\ ev.sendOk)
    => IF check_win(ev.res.loaded) # 0 \/ check_draw(ev.res.loaded)
       THEN /\ Len(ev.res.sent) = 1
            /\ ev.res.sent[1].command = GAME_OVER
            /\ SlotIsEmpty(gameRoster[ev.slot])
       ELSE /\ Len(ev.res.sent) = 1
            /\ ev.res.sent[1].command = MOVE
            /\ ev.res.sent[1].data - ASCII_0 \in Cells
            /\ ev.res.loaded[ev.res.sent[1].data - ASCII_0] = ev.res.sent[1].data
            /\ gameRoster[ev.slot].board
                 = [ev.res.loaded EXCEPT ![ev.res.sent[1].data - ASCII_0] = P1_MARK]
            /\ gameRoster[ev.slot].sd = ev.pre[ev.slot].sd
            /\ srvState = "run"

(* A move the specification calls invalid: no digit 1..9, a cell that      *)
(* does not hold its label, or an outcome that is decided (a win or a      *)
(* draw is recorded).                                                      *)
InvalidMove(tm, game) ==
    \/ tm.data - ASCII_0 \notin Cells
    \/ game.board[tm.data - ASCII_0] # tm.data
    \/ game.winner # -1

(* C10 as the specification states it: an invalid move resets the slot to  *)
(* Empty; no mark is placed and nothing is sent.                           *)
C10_InvalidMoveResets ==
    (SlotCommand(MOVE) /\ InvalidMove(ev.tm, ev.pre[ev.slot]))
    => /\ SlotIsEmpty(gameRoster[ev.slot])
       /\ ev.res.sent = <<>>

(* A valid move of the peer and the board with the peer's mark on it.      *)
ValidMoveEv == SlotCommand(MOVE) /\ ~InvalidMove(ev.tm, ev.pre[ev.slot])
PeerBoard == [ev.pre[ev.slot].board EXCEPT ![ev.tm.data - ASCII_0] = P2_MARK]
OutcomeOf(board) ==
    IF check_win(board) > 0 THEN 1
    ELSE IF check_win(board) < 0 THEN 2
    ELSE IF check_draw(board) THEN 0 ELSE -1

C12_GameOverResets ==
    SlotCommand(GAME_OVER)
    => /\ SlotIsEmpty(gameRoster[ev.slot])
       /\ srvFds[ev.pre[ev.slot].sd] = NoPeer
       /\ ev.res.closed
       /\ ev.res.sent = <<>>

C12_Witness ==
    /\ SlotCommand(GAME_OVER)
    /\ ev.pre[ev.slot].winner = -1
    /\ ev.pre[ev.slot].board # [i \in Cells |-> Label(i)]
    /\ SlotIsEmpty(gameRoster[ev.slot])

(* C13: a slot without a descriptor has the nine labels on its board and   *)
(* winner -1, so a connection that accept binds to a slot finds a fresh    *)
(* board and no outcome there.                                             *)
C13_UnboundSlotFresh ==
    /\ \A s \in Slots : gameRoster[s].sd < 0 => SlotIsEmpty(gameRoster[s])
    /\ (ev.kind = "accept" /\ ev.slot > 0)
       => AwaitingFirstCommand(gameRoster[ev.slot])

C13_Witness ==
    /\ ev.kind = "slot"
    /\ ev.pre[ev.slot].winner >= 0
    /\ ev.pre[ev.slot].board # [i \in Cells |-> Label(i)]
    /\ gameRoster[ev.slot].sd < 0
    /\ SlotIsEmpty(gameRoster[ev.slot])

(* C14: no descriptor is in two slots; a descriptor in a slot is one that  *)
(* accept returned and that has not been closed since, so the descriptor   *)
(* a reset closes is in no slot until accept returns it again.             *)
C14_HandlesExclusive ==
    /\ \A s, t \in Slots :
          (s # t /\ gameRoster[s].sd >= 0) => gameRoster[s].sd # gameRoster[t].sd
    /\ \A s \in Slots :
          gameRoster[s].sd >= 0
          => gameRoster[s].sd \in SrvFdRange /\ srvFds[gameRoster[s].sd] # NoPeer
    /\ (ev.kind = "slot" /\ ev.res.closed)
       => \A s \in Slots : gameRoster[s].sd # ev.pre[ev.slot].sd
    /\ (ev.kind = "accept" /\ ev.slot > 0)
       => /\ ev.pre[ev.slot].sd < 0
          /\ \A s \in Slots : ev.pre[s].sd # ev.fd
          /\ gameRoster[ev.slot].sd = ev.fd

(* accept returns a descriptor lower than one still in a slot: one that a  *)
(* reset released.                                                         *)
C14_Witness ==
    /\ ev.kind = "accept"
    /\ ev.slot > 0
    /\ gameRoster[ev.slot].sd = ev.fd
    /\ \E s \in Slots : gameRoster[s].sd > ev.fd

(* C15: whatever arrives on the connection of one slot (a command with any *)
(* gameNum, an invalid message, a disconnect) and whether or not the reply *)
(* can be sent, every other slot keeps its descriptor, board and winner,   *)
(* and its descriptor stays open.                                          *)
C15_OtherSlotsUntouched ==
    ev.kind = "slot"
    => \A t \in Slots \ {ev.slot} :
          /\ gameRoster[t] = ev.pre[t]
          /\ gameRoster[t].sd >= 0 => srvFds[gameRoster[t].sd] # NoPeer

(* A command naming another slot, which has a game under way, changes the  *)
(* slot it arrived on.                                                     *)
C15_Witness ==
    /\ ev.kind = "slot"
    /\ ev.tm # <<>>
    /\ ValidTcp(ev.tm)
    /\ ev.tm.gameNum \in Slots \ {ev.slot}
    /\ ev.pre[ev.tm.gameNum].sd >= 0
    /\ ev.pre[ev.tm.gameNum].board # [i \in Cells |-> Label(i)]
    /\ gameRoster[ev.slot] # ev.pre[ev.slot]
    /\ gameRoster[ev.tm.gameNum] = ev.pre[ev.tm.gameNum]

(* C16 as the specification states it: the server is never inside recv     *)
(* waiting for bytes that the peer of a slot has not sent.                 *)
C16_SelectOnlySuspension ==
    ~(srvState \in {"recv", "load"} /\ recvOn \in Slots)

(* The datagram of the last step is a valid REQUEST_GAME.                  *)
RequestGameEv ==
    /\ ev.kind = "udp"
    /\ ev.dg[1] = VERSION
    /\ ev.dg[2] = REQUEST_GAME

(* C17: the server sends a datagram only on a valid REQUEST_GAME received  *)
(* while some slot is unbound: one GAME_AVAILABLE, to the address the      *)
(* request came from, carrying the port the server listens on; a           *)
(* REQUEST_GAME received while every slot is bound is not answered.        *)
C17_GameAvailableOnRequest ==
    ev.kind = "udp"
    => /\ ev.sent # <<>>
          => /\ RequestGameEv
             /\ \E s \in Slots : ev.pre[s].sd < 0
             /\ Len(ev.sent) = 1
             /\ ev.sent[1].version = VERSION
             /\ ev.sent[1].command = GAME_AVAILABLE
             /\ Ntohs(ev.sent[1].port) = servPort
             /\ ev.to = (IF ev.fromCli THEN "client" ELSE "other")
       /\ (RequestGameEv /\ \E s \in Slots : ev.pre[s].sd < 0)
          => ev.sent # <<>>
       /\ (RequestGameEv /\ \A s \in Slots : ev.pre[s].sd >= 0)
          => ev.sent = <<>>

C17_Witness ==
    /\ RequestGameEv
    /\ \A s \in Slots : ev.pre[s].sd >= 0
    /\ ev.sent = <<>>

(* C18: a GAME_AVAILABLE datagram received by the server leaves every      *)
(* slot and every descriptor as it was and nothing is sent, neither a      *)
(* datagram nor a message on a connection.                                 *)
C18_GameAvailableIgnored ==
    (ev.kind = "udp" /\ ev.dg = <<VERSION, GAME_AVAILABLE>>)
    => /\ gameRoster = ev.pre
       /\ ev.sent = <<>>
       /\ \A s \in Slots :
             gameRoster[s].sd >= 0 => srvFds[gameRoster[s].sd] # NoPeer
       /\ srvState = "run"

C18_Witness ==
    /\ ev.kind = "udp"
    /\ ev.dg = <<VERSION, GAME_AVAILABLE>>
    /\ \E s \in Slots : gameRoster[s].sd < 0
    /\ \E s \in Slots : /\ gameRoster[s].sd >= 0
                         /\ gameRoster[s].board # [i \in Cells |-> Label(i)]
    /\ ev.sent = <<>>

(* C19 as the specification states it: a client waiting in discovery       *)
(* leaves it, by a timeout that ends the process or by a datagram it       *)
(* acts on; it does not wait forever, whatever datagrams arrive.           *)
C19_DiscoveryEnds == (cli.pc = "discover") ~> (cli.pc # "discover")

(* The last step is a connect, to the sender of a datagram received in     *)
(* discovery, that failed.                                                 *)
DiscoveredConnectFailed ==
    /\ ev.kind = "cli"
    /\ ev.op = "discover"
    /\ ev.target # <<>>
    /\ ~ev.connected

(* C20: after a failed connect to a discovered server the client sends     *)
(* REQUEST_GAME again and waits, not more than MC_ATTEMPTS times in the    *)
(* life of the process, connections made in between not counting; the      *)
(* failed connect after the last of them ends the process with failure.    *)
C20_DiscoveryBudget ==
    /\ cli.repeats <= MC_ATTEMPTS
    /\ DiscoveredConnectFailed
       => IF ev.pre.repeats < MC_ATTEMPTS
          THEN /\ cli.pc = "discover"
               /\ cli.status = "running"
               /\ cli.repeats = ev.pre.repeats + 1
               /\ ev.reqs = 1
          ELSE /\ cli.pc = "done"
               /\ cli.status = "failure"
               /\ ev.reqs = 0
    /\ cli.status = "failure" => cli.repeats = MC_ATTEMPTS

(* The budget runs out in a process that was connected in between: some    *)
(* of the failed connects were made before the connection, the others in   *)
(* the discovery that followed its loss.                                   *)
C20_Witness ==
    /\ DiscoveredConnectFailed
    /\ ev.pre.repeats = MC_ATTEMPTS
    /\ cli.status = "failure"
    /\ ev.pre.ctx = "loop"
    /\ ev.pre.fails < ev.pre.repeats

(* The command of the message the client passed to send() first in the     *)
(* last step, -1 if it sent nothing.                                       *)
CliSentCommand ==
    IF ev.kind = "cli" /\ Len(ev.tcp) >= TCP_CMD_SIZE
    THEN TcpOfBytes(SubSeq(ev.tcp, 1, TCP_CMD_SIZE)).command ELSE -1

(* C21, first part as stated, second part for every connection lost: the   *)
(* first message a client process sends is NEW_GAME, whether main's        *)
(* connect succeeded or the server was found by discovery; RESUME_GAME is  *)
(* sent only on a connection made by the discovery that a zero-length read *)
(* in the game loop started, the connection lost being one the client had  *)
(* opened with NEW_GAME or with RESUME_GAME.                               *)
C21_ResumeOnlyAfterLoss ==
    /\ (CliSentCommand # -1 /\ ev.pre.opened = -1)
       => /\ ev.tcp = TcpBytes(NewGameMsg)
          /\ ev.pre.pc \in {"start", "discover"}
    /\ CliSentCommand = NEW_GAME => ev.pre.opened = -1
    /\ CliSentCommand = RESUME_GAME
       => /\ ev.pre.pc = "discover"
          /\ ev.pre.ctx = "loop"
          /\ ev.pre.opened \in {NEW_GAME, RESUME_GAME}
          /\ ev.connected

(* C21 as the specification states it: RESUME_GAME is sent only after the  *)
(* loss of a connection on which NEW_GAME had been sent.                   *)
C21_ResumeOnlyAfterNewGame ==
    CliSentCommand = RESUME_GAME => ev.pre.opened = NEW_GAME

C21_Witness ==
    /\ CliSentCommand = RESUME_GAME
    /\ ev.pre.opened = NEW_GAME
    /\ ev.pre.ctx = "loop"

(* The client has read a well-formed message with the given command.       *)
CliReceived(command) ==
    /\ ev.kind = "cli"
    /\ ev.op = "recv"
    /\ ev.input.version = VERSION
    /\ ev.input.command = command

(* C22: on a NEW_GAME or RESUME_GAME command from the server the client    *)
(* closes its connection and ends; its board is as it was and it has sent  *)
(* nothing.                                                                *)
C22_UnsolicitedCommandLeaves ==
    (CliReceived(NEW_GAME) \/ CliReceived(RESUME_GAME))
    => /\ cli.pc = "done"
       /\ cli.status = "success"
       /\ cli.game.board = ev.pre.game.board
       /\ cli.game.winner = ev.pre.game.winner
       /\ ev.tcp = <<>>
       /\ cliFds[ev.pre.game.sd] = NoPeer

(* RESUME_GAME reaches a client that has marks on its board.               *)
C22_Witness ==
    /\ CliReceived(RESUME_GAME)
    /\ \E i \in Cells : ev.pre.game.board[i] = P2_MARK
    /\ cli.pc = "done"

(* The move the peer sent, as the handler reads it, when validate_move     *)
(* accepted it, and the slot with the peer's mark on it, as move hands it  *)
(* to check_game_over.                                                     *)
PeerCell == SChar(ev.tm.data) - ASCII_0
PeerMoved == SlotCommand(MOVE) /\ validate_move(PeerCell, ev.pre[ev.slot])
PeerGame == [ev.pre[ev.slot] EXCEPT !.board[PeerCell] = P2_MARK]

(* C23: whatever cells the remote player chooses, against the moves of     *)
(* find_best_move no move of the player makes check_game_over record       *)
(* winner 2, and no slot ever holds winner 2.                              *)
C23_ServerNeverLoses ==
    /\ \A s \in Slots : gameRoster[s].winner # 2
    /\ PeerMoved => check_game_over(PeerGame).winner # 2

(* A game played to its end: the player's fourth move is answered with    *)
(* the server's fifth, which fills the board.                              *)
C23_Witness ==
    /\ PeerMoved
    /\ CountMark(ev.pre[ev.slot].board, P1_MARK) = 4
    /\ CountMark(ev.pre[ev.slot].board, P2_MARK) = 3
    /\ check_draw(gameRoster[ev.slot].board)
    /\ gameRoster[ev.slot].winner \in {0, 1}

(* C24: on every board of play that is not decided find_best_move returns *)
(* a position 1..9 whose cell holds its label, and the board it leaves is  *)
(* the board it was given.                                                 *)
C24_SearchLeavesBoard ==
    ev.kind = "searched"
    => /\ ev.res.bestMove \in Cells
       /\ ev.board[ev.res.bestMove] = Label(ev.res.bestMove)
       /\ ev.res.board = ev.board

(* The search has run on a board with three cells left, cell 1 not among  *)
(* them.                                                                   *)
C24_Witness ==
    /\ ev.kind = "searched"
    /\ Cardinality(EmptyCells(ev.board)) = 3
    /\ ev.board[1] # Label(1)
    /\ ev.res.bestMove > 1
    /\ ev.res.board = ev.board

(* The rows, columns and diagonals, and the outcome of a board in the      *)
(* words of the specification.  rec is the slot as check_game_over left    *)
(* it and over the value it returned.                                      *)
WinLines == {{1, 2, 3}, {4, 5, 6}, {7, 8, 9}, {1, 4, 7}, {2, 5, 8}, {3, 6, 9},
             {1, 5, 9}, {3, 5, 7}}
LineOf(board, mark) == \E l \in WinLines : \A c \in l : board[c] = mark
NoLabelLeft(board) == \A i \in Cells : board[i] # Label(i)
OutcomeAsStated(game, rec, over) ==
    /\ (over /\ rec.winner = 1) <=> LineOf(game.board, P1_MARK)
    /\ (over /\ rec.winner = 2) <=> LineOf(game.board, P2_MARK)
    /\ (over /\ rec.winner = 0) <=> /\ ~LineOf(game.board, P1_MARK)
                                     /\ ~LineOf(game.board, P2_MARK)
                                     /\ NoLabelLeft(game.board)
    /\ ~over <=> /\ ~LineOf(game.board, P1_MARK)
                 /\ ~LineOf(game.board, P2_MARK)
                 /\ ~NoLabelLeft(game.board)
    /\ ~over => rec = game

(* The server has answered a move or a resumed position with a move of     *)
(* its own, and the slot as it was when check_game_over was called on it.  *)
ServerMoved ==
    /\ ev.kind = "slot"
    /\ ev.res.called \in {"move", "resume_game"}
    /\ ev.sendOk
    /\ ~ev.res.hang
    /\ Len(ev.res.sent) = 1
    /\ ev.res.sent[1].command = MOVE
ServerGame == [gameRoster[ev.slot] EXCEPT !.winner = ev.pre[ev.slot].winner]

(* C25: on the board after a move of the player and on the board after a  *)
(* move of the server, check_game_over records winner 1 iff a line holds   *)
(* three X, winner 2 iff a line holds three O, a draw iff no line is won   *)
(* and no cell holds its label, and else returns 0 and records nothing;    *)
(* the slot and the reply show what it recorded.                           *)
C25_OutcomeRecorded ==
    /\ PeerMoved
       => /\ OutcomeAsStated(PeerGame, check_game_over(PeerGame),
                             GameOverNow(PeerGame.board))
          /\ GameOverNow(PeerGame.board)
             <=> (ev.res.sent # <<>> /\ ev.res.sent[1].command = GAME_OVER)
    /\ ServerMoved
       => /\ OutcomeAsStated(ServerGame, check_game_over(ServerGame),
                             GameOverNow(ServerGame.board))
          /\ gameRoster[ev.slot] = check_game_over(ServerGame)

(* X on cell 3 of the board X,X,_,O,O,_,_,_,_: winner 1 is recorded.        *)
C25_Witness ==
    /\ ServerMoved
    /\ ev.res.loaded = load_board(init_shared_state, Snap({1, 2}, {4, 5}))
    /\ ev.res.sent[1].data = Label(3)
    /\ gameRoster[ev.slot].board
         = load_board(init_shared_state, Snap({1, 2, 3}, {4, 5}))
    /\ gameRoster[ev.slot].winner = 1

(* The value of the cell i of a board to the server, and the cells of      *)
(* the greatest value.                                                     *)
CellValue(board, i) == minimax([board EXCEPT ![i] = P1_MARK], 0, FALSE)
BestCells(board) ==
    {i \in EmptyCells(board) :
        \A j \in EmptyCells(board) : CellValue(board, j) <= CellValue(board, i)}

(* C26: find_best_move returns the lowest of the empty cells of the        *)
(* greatest minimax value; on the empty board that is cell 1, and the      *)
(* MOVE message new_game sends carries '1'.                                *)
C26_LowestBestCell ==
    ev.kind = "searched"
    => /\ ev.res.bestMove \in BestCells(ev.board)
       /\ \A i \in BestCells(ev.board) : ev.res.bestMove <= i
       /\ ev.res.bestMove = find_best_move(ev.board)
       /\ ev.board = init_shared_state
          => /\ ev.res.bestMove = 1
             /\ new_game(TcpMsg(VERSION, NEW_GAME, 0, 0),
                         [gameRoster[1] EXCEPT !.sd = SrvFdBase], TRUE).sent
                  = <<TcpMsg(VERSION, MOVE, Label(1), 1)>>

(* The search has run on the empty board.                                  *)
C26_Witness ==
    /\ ev.kind = "searched"
    /\ ev.board = init_shared_state
    /\ ev.res.bestMove = 1

(* The board a handler ran find_best_move on after a move of the player    *)
(* or on a resumed position, the cell it sent, and the cells on which an   *)
(* X completes a line.                                                     *)
ServerSearched ==
    /\ ev.kind = "slot"
    /\ ev.res.called \in {"move", "resume_game"}
    /\ ev.res.searched
SearchedBoard == IF ev.res.called = "move" THEN PeerGame.board ELSE ev.res.loaded
SentCell == SChar(ev.res.sent[1].data) - ASCII_0
WinningCells(board) ==
    {i \in EmptyCells(board) : LineOf([board EXCEPT ![i] = P1_MARK], P1_MARK)}

(* C27: when an X on some empty cell completes a line, the cell the        *)
(* server sends is such a cell and winner 1 is recorded; those cells have  *)
(* the value GAME_SIZE + 1 and every other cell a smaller one.             *)
C27_TakesImmediateWin ==
    (ServerSearched /\ WinningCells(SearchedBoard) # {})
    => /\ Len(ev.res.sent) = 1
       /\ ev.res.sent[1].command = MOVE
       /\ SentCell \in WinningCells(SearchedBoard)
       /\ ev.sendOk => gameRoster[ev.slot].winner = 1
       /\ \A i \in EmptyCells(SearchedBoard) :
            IF i \in WinningCells(SearchedBoard)
            THEN CellValue(SearchedBoard, i) = GAME_SIZE + 1
            ELSE CellValue(SearchedBoard, i) < GAME_SIZE + 1

(* The server completes a line on a higher cell although a lower cell      *)
(* wins as well, only later.                                               *)
C27_Witness ==
    /\ ServerSearched
    /\ ev.sendOk
    /\ WinningCells(SearchedBoard) # {}
    /\ \E i \in EmptyCells(SearchedBoard) :
         /\ i < SentCell
         /\ CellValue(SearchedBoard, i) > 0
         /\ CellValue(SearchedBoard, i) < GAME_SIZE + 1
    /\ gameRoster[ev.slot].winner = 1

(* The player bound to slot s has closed its connection and no whole       *)
(* command of it is unread: a read on the slot returns zero bytes.         *)
PeerGone(s) ==
    /\ gameRoster[s].sd > 0
    /\ srvFds[gameRoster[s].sd] \in ConnIds
    /\ ~conns[srvFds[gameRoster[s].sd]].cliOpen
    /\ Len(conns[srvFds[gameRoster[s].sd]].c2s) < TCP_CMD_SIZE

(* C28 as the specification states it: a slot whose player has             *)
(* disconnected is reset to Empty, open to a later connection.             *)
C28_DisconnectResets ==
    \A s \in 1..RecvPeers : PeerGone(s) ~> SlotIsEmpty(gameRoster[s])

(* C29: every cell of every slot's board, and of the client's board once   *)
(* tictactoe has set it up, holds its label or one of the marks X and O.   *)
C29_CellsLabelOrMark ==
    /\ \A s \in Slots : \A i \in Cells :
          gameRoster[s].board[i] \in {Label(i), P1_MARK, P2_MARK}
    /\ cli.opened # -1
       => \A i \in Cells : cli.game.board[i] \in {Label(i), P1_MARK, P2_MARK}

(* The server has loaded a snapshot into a slot's board, which holds labels *)
(* and both marks, while the client's board holds both marks as well.      *)
C29_Witness ==
    /\ cli.opened # -1
    /\ ev.kind = "slot"
    /\ ev.res.called = "resume_game"
    /\ ev.res.loaded # <<>>
    /\ {gameRoster[ev.slot].board[i] : i \in Cells} \cap {P1_MARK, P2_MARK}
         = {P1_MARK, P2_MARK}
    /\ {cli.game.board[i] : i \in Cells} \cap {P1_MARK, P2_MARK} = {P1_MARK, P2_MARK}
    /\ \E i \in Cells : gameRoster[ev.slot].board[i] = Label(i)

(* C30: the slot at roster index i (slot s = i + 1 here) has the number    *)
(* i + 1 in every state: init_game_roster sets it and neither accept nor   *)
(* a command, a failure or a reset changes it.                             *)
C30_SlotNumbersFixed ==
    /\ \A s \in Slots : gameRoster[s].gameNum = s
    /\ ev.kind = "slot"
       => \A s \in Slots : gameRoster[s].gameNum = ev.pre[s].gameNum

(* accept binds a connection to slot 2 again, after its reset, between two *)
(* slots that are bound; slot 1 has a game under way.                      *)
C30_Witness ==
    /\ ev.kind = "accept"
    /\ ev.slot = 2
    /\ gameRoster[1].sd >= 0
    /\ gameRoster[1].board # [i \in Cells |-> Label(i)]
    /\ gameRoster[3].sd >= 0
    /\ gameRoster[2].gameNum = 2

(* C31: every handler run on a well-formed message returns to the loop:    *)
(* send_p1_move's loop around find_best_move and validate_move ends.       *)
C31_HandlersReturn ==
    (ev.kind = "slot" /\ ev.tm # <<>> /\ ValidTcp(ev.tm)) => ~ev.res.hang

(* The connection the client made last: connections are numbered in the   *)
(* order in which connect() succeeded.                                     *)
NewestConn ==
    CHOOSE n \in ConnIds :
        conns[n].st # "unused" /\ \A o \in ConnIds : o > n => conns[o].st = "unused"

(* C32: after a failover RESUME_GAME and the snapshot are on the           *)
(* connection discovery has just made, and while the client plays, the     *)
(* descriptor game.sd, on which it reads and writes, is its open end of    *)
(* the connection made last, never a closed descriptor.                    *)
C32_ResumeOnNewConnection ==
    /\ (ev.kind = "cli" /\ ev.op = "discover" /\ ev.connected /\ ev.pre.ctx = "loop")
       => /\ ev.tcp = TcpBytes(ResumeGameMsg) \o BoardState(ev.pre.dboard)
          /\ conns[NewestConn].c2s = ev.tcp
          /\ NewestConn \notin {cliFds[f] : f \in CliFdRange \ {cli.game.sd}}
    /\ cli.pc = "play"
       => /\ cliFds[cli.game.sd] = NewestConn
          /\ conns[NewestConn].cliOpen
          /\ cli.sd = cli.game.sd

(* The client has resumed on a second connection, the server has closed    *)
(* it, and the client's next read, on the same connection, returned 0.     *)
C32_Witness ==
    /\ ev.kind = "cli"
    /\ ev.op = "eof"
    /\ ev.pre.opened = RESUME_GAME
    /\ ev.pre.game.sd = ev.pre.sd
    /\ \E i \in Cells : ev.pre.game.board[i] = P2_MARK

(* C33: after a read of 0 bytes in the game loop the client goes on to    *)
(* receive a MOVE or GAME_OVER on a connection it resumed on, or ends.     *)
ResumedGameGoesOn ==
    /\ ev.kind = "cli"
    /\ ev.op = "recv"
    /\ ev.pre.opened = RESUME_GAME
    /\ CliValidTcp(ev.input)
    /\ ev.input.command \in {MOVE, GAME_OVER}
C33_FailoverEnds ==
    (ev.kind = "cli" /\ ev.op = "eof") ~> (ResumedGameGoesOn \/ cli.pc = "done")

(* C34: in discovery the client calls connect() only on a datagram whose   *)
(* command is GAME_AVAILABLE.                                              *)
C34_ConnectsOnGameAvailableOnly ==
    (ev.kind = "cli" /\ ev.op = "discover" /\ ev.target # <<>>)
    => ev.input.command = GAME_AVAILABLE

(* C35: while the server waits in select, the winner recorded in each slot *)
(* is the outcome of the slot's board: -1 iff no line is held and a label  *)
(* is left, 0 iff no line is held and no label is left, 1 iff X holds a    *)
(* line, 2 iff O holds a line.                                             *)
C35_WinnerAgreesWithBoard ==
    srvState = "run"
    => \A s \in Slots :
         LET game == gameRoster[s]
         IN  /\ game.winner = -1 <=> /\ ~LineOf(game.board, P1_MARK)
                                     /\ ~LineOf(game.board, P2_MARK)
                                     /\ ~NoLabelLeft(game.board)
             /\ game.winner = 0 <=> /\ ~LineOf(game.board, P1_MARK)
                                    /\ ~LineOf(game.board, P2_MARK)
                                    /\ NoLabelLeft(game.board)
             /\ game.winner = 1 <=> LineOf(game.board, P1_MARK)
             /\ game.winner = 2 <=> LineOf(game.board, P2_MARK)

(* C36: while the server waits in select every slot's board holds as many  *)
(* X as O or one X more, and the board resume_game runs the search on      *)
(* holds mark counts that differ by one at most.                           *)
MarkLead(board) == CountMark(board, P1_MARK) - CountMark(board, P2_MARK)
C36_MarkCountsBalanced ==
    /\ srvState = "run" => \A s \in Slots : MarkLead(gameRoster[s].board) \in {0, 1}
    /\ (ev.kind = "slot" /\ ev.res.searched /\ ev.res.loaded # <<>>)
       => MarkLead(ev.res.loaded) \in {-1, 0, 1}

(* The client has received a valid MOVE in a game it started with          *)
(* NEW_GAME, placed X on the cell and, the game not being over, sent the   *)
(* move its user chose; ClientChoosing is its board when get_move was      *)
(* called.  The server is in select and a slot is bound to the connection. *)
ClientChose ==
    /\ ev.kind = "cli"
    /\ ev.op = "recv"
    /\ ev.pre.opened = NEW_GAME
    /\ CliValidTcp(ev.input)
    /\ ev.input.command = MOVE
    /\ validate_move(SChar(ev.input.data) - ASCII_0, ev.pre.game)
    /\ ~GameOverNow([ev.pre.game.board EXCEPT ![SChar(ev.input.data) - ASCII_0] = P1_MARK])
    /\ srvState = "run"
ClientChoosing == [ev.pre.game.board EXCEPT ![SChar(ev.input.data) - ASCII_0] = P1_MARK]
SlotsOfClient ==
    {s \in Slots : /\ gameRoster[s].sd > 0
                    /\ srvFds[gameRoster[s].sd] \in ConnIds
                    /\ srvFds[gameRoster[s].sd] = cliFds[ev.pre.game.sd]}

(* C37: when the client has placed the server's latest move and is to      *)
(* choose its own, its board is the board of the slot bound to its         *)
(* connection.                                                             *)
C37_BoardsAgree ==
    ClientChose => \A s \in SlotsOfClient : gameRoster[s].board = ClientChoosing

(* The boards agree on two X and an O, the client choosing its second      *)
(* move.                                                                   *)
C37_Witness ==
    /\ ClientChose
    /\ SlotsOfClient # {}
    /\ \A s \in SlotsOfClient : gameRoster[s].board = ClientChoosing
    /\ CountMark(ClientChoosing, P1_MARK) = 2
    /\ CountMark(ClientChoosing, P2_MARK) = 1

(* The board send_p1_move was called on by the handler of the last step:   *)
(* the labels (new_game), the slot's board with the remote player's mark   *)
(* (move), the board load_shared_state left (resume_game).                 *)
ChosenOn ==
    IF ev.res.called = "new_game" THEN [i \in Cells |-> Label(i)]
    ELSE IF ev.res.called = "move" THEN PeerBoard
    ELSE ev.res.loaded

(* C38: every message the server passes to send() on a slot's socket has   *)
(* version 6, command MOVE or GAME_OVER and the slot's number as gameNum;  *)
(* the data of a MOVE is the digit of a cell that held its label on the    *)
(* board the move was chosen on.                                           *)
C38_ServerMessages ==
    ev.kind = "slot"
    => \A k \in 1..Len(ev.res.sent) :
         /\ ev.res.sent[k].version = VERSION
         /\ ev.res.sent[k].command \in {MOVE, GAME_OVER}
         /\ ev.res.sent[k].gameNum = ev.slot
         /\ ev.res.sent[k].command = MOVE
            => /\ ev.res.sent[k].data - ASCII_0 \in Cells
               /\ ChosenOn[ev.res.sent[k].data - ASCII_0] = ev.res.sent[k].data

(* A MOVE sent for a position taken up by RESUME_GAME on a slot that held  *)
(* marks already, on a cell other than the first.                          *)
C38_Witness ==
    /\ ev.kind = "slot"
    /\ ev.res.called = "resume_game"
    /\ ev.pre[ev.slot].board # [i \in Cells |-> Label(i)]
    /\ Len(ev.res.sent) = 1
    /\ ev.res.sent[1].command = MOVE
    /\ ev.res.sent[1].data - ASCII_0 > 1
    /\ CountMark(ev.res.loaded, P2_MARK) > 0

(* C39: accept binds the new connection to a slot that was open, and to    *)
(* that one only, or, no slot being open, closes it; no bound slot's       *)
(* descriptor changes, and the new descriptor is in no other slot.  An     *)
(* answer to a datagram binds nothing.  So of the connections made on      *)
(* GAME_AVAILABLE answers given while one slot was open, the first         *)
(* accepted has the slot and every later one is closed.                    *)
C39_OneBindingPerSlot ==
    /\ ev.kind = "accept"
       => /\ IF \A s \in Slots : ev.pre[s].sd >= 0
             THEN /\ ev.closed
                  /\ ev.slot = 0
                  /\ srvFds[ev.fd] = NoPeer
             ELSE /\ ~ev.closed
                  /\ ev.slot \in Slots
                  /\ ev.pre[ev.slot].sd < 0
                  /\ gameRoster[ev.slot] = [ev.pre[ev.slot] EXCEPT !.sd = ev.fd]
                  /\ srvFds[ev.fd] = ev.peer
          /\ \A t \in Slots \ {ev.slot} : gameRoster[t] = ev.pre[t] /\ ev.pre[t].sd # ev.fd
    /\ ev.kind = "udp" => gameRoster = ev.pre

(* The roster is full and a further connection has been accepted and       *)
(* closed: ten connections are bound, one to each slot.                    *)
C39_Witness ==
    /\ ev.kind = "accept"
    /\ ev.closed
    /\ \A s \in Slots : gameRoster[s].sd >= 0 /\ srvFds[gameRoster[s].sd] = EnvPeer
    /\ Cardinality({gameRoster[s].sd : s \in Slots}) = MAX_GAMES

(* C40: the index with which the server calls through commands[] is one   *)
(* of 0..3 and the index with which the client does is one of 0..2,        *)
(* whatever byte was received as the command.                              *)
C40_DispatchIndexInBounds ==
    ev.kind = "dispatch"
    => /\ ev.srv => ev.index \in NEW_GAME..RESUME_GAME
       /\ ev.cli => ev.index \in NEW_GAME..GAME_OVER

(* RESUME_GAME, the last entry of the table: the server calls it, the      *)
(* client rejects the message.                                             *)
C40_Witness ==
    /\ ev.kind = "dispatch"
    /\ ev.srv
    /\ ~ev.cli
    /\ ev.index = RESUME_GAME
    /\ ev.tm.gameNum = MAX_GAMES

====
